---- MODULE Spec2Model ----
(***************************************************************************)
(* Model of the PII redactor core: the detection engine (compiled pattern  *)
(* registry behind a reader/writer mutex), the redactor, the source cache  *)
(* and the subscription manager.                                           *)
(*                                                                         *)
(* Strings the code inspects byte by byte (texts, names, keys, categories, *)
(* versions, constraints, globs) are sequences of one-byte strings; Go     *)
(* offsets are kept 0-based and half-open, as in the source.  Strings the  *)
(* code only copies or compares as a whole (severity, confidence,          *)
(* maturity, validator name, strategy type) are plain strings.             *)
(***************************************************************************)
EXTENDS Integers, Sequences, FiniteSets, TLC

VARIABLES
    patterns,           \* Engine.patterns: key -> CompiledPattern
    validationEnabled,  \* Engine.validationEnabled
    mu,                 \* Engine.mu: [readers, writer]
    call,               \* the in-flight Detect/Redact call of the reader goroutine
    toggle,             \* the in-flight Enable/DisablePatternsByCategory call
    addErr,             \* what the last AddPattern call of the embedding layer returned
    sources,            \* Cache.sources: source key -> CachedSource
    cachePatterns,      \* Cache.patterns: pattern key -> CachedPattern
    subResult,          \* the SubscriptionResult of the last Subscribe call
    unsubscribed,       \* the source key of the last Unsubscribe call
    observed,           \* what the last completed DetectInText call was given and returned
    updater,            \* the subscription under reconciliation and what the Updater returned
    semver              \* a constraint, a version and what Constraint.Matches returned for them

vars == <<patterns, validationEnabled, mu, call, toggle, addErr,
          sources, cachePatterns, subResult, unsubscribed, observed, updater, semver>>

engineVars == <<patterns, validationEnabled, mu, call, toggle, addErr>>
supplyVars == <<sources, cachePatterns, subResult, unsubscribed>>

(***************************************************************************)
(* Go string primitives                                                    *)
(***************************************************************************)

\* s[a:b]
Slice(s, a, b) == SubSeq(s, a + 1, b)

\* strings.HasPrefix
HasPrefix(s, p) == Len(p) <= Len(s) /\ SubSeq(s, 1, Len(p)) = p

\* strings.Repeat
RECURSIVE Repeat(_, _)
Repeat(s, n) == IF n <= 0 THEN <<>> ELSE s \o Repeat(s, n - 1)

Range(s) == {s[i] : i \in 1..Len(s)}

\* UTF-8.  The model has one character of more than one byte, U+00E9, encoded
\* as the lead byte C3 and the continuation byte A9; every other byte of a
\* valid text is a character of its own.
LeadBytes == {"C3"}
ContinuationBytes == {"A9"}

\* utf8.RuneError as string(rune) encodes it
RuneError == <<"EF", "BF", "BD">>

\* []rune(s), each rune given by its UTF-8 encoding: a byte that is not part
\* of a valid encoding decodes to RuneError
RECURSIVE Runes(_)
Runes(s) ==
    IF s = <<>> THEN <<>>
    ELSE IF Len(s) >= 2 /\ s[1] \in LeadBytes /\ s[2] \in ContinuationBytes
    THEN <<SubSeq(s, 1, 2)>> \o Runes(SubSeq(s, 3, Len(s)))
    ELSE IF s[1] \in LeadBytes \cup ContinuationBytes
    THEN <<RuneError>> \o Runes(Tail(s))
    ELSE <<<<s[1]>>>> \o Runes(Tail(s))

\* utf8.RuneCountInString
RuneCount(s) == Len(Runes(s))

\* string(runes)
RECURSIVE StringOfRunes(_)
StringOfRunes(runes) ==
    IF runes = <<>> THEN <<>> ELSE Head(runes) \o StringOfRunes(Tail(runes))

Min(a, b) == IF a < b THEN a ELSE b

DigitBytes == {"0", "1", "2", "3", "4", "5", "6", "7", "8", "9"}
LowerBytes == {"a", "b", "c", "d", "k", "p", "s", "w", "x"}
WordBytes == DigitBytes \cup LowerBytes \cup {"_"}

\* strconv.Atoi on a one-digit string
DigitVal(b) ==
    CASE b = "0" -> 0 [] b = "1" -> 1 [] b = "2" -> 2 [] b = "3" -> 3
      [] b = "4" -> 4 [] b = "5" -> 5 [] b = "6" -> 6 [] b = "7" -> 7
      [] b = "8" -> 8 [] b = "9" -> 9 [] OTHER -> 0

(***************************************************************************)
(* regexp (Go standard library): compiled programs and FindAllStringIndex  *)
(*                                                                         *)
(* A compiled program is an ordered list of alternatives, each a list of   *)
(* quantified byte classes [cls, min, max] (max = -1: unbounded), with an  *)
(* optional \b on both ends.  Matching is leftmost-first with greedy       *)
(* quantifiers, as in Go.                                                  *)
(***************************************************************************)

Atom(cls, lo, hi) == [cls |-> cls, min |-> lo, max |-> hi]
One(cls) == Atom(cls, 1, 1)
Prog(alts, wb) == [alts |-> alts, wb |-> wb]

\* number of consecutive bytes of cls from offset pos, at most cap (cap < 0: no cap)
RECURSIVE RunLen(_, _, _, _)
RunLen(text, pos, cls, cap) ==
    IF cap = 0 \/ pos >= Len(text) \/ text[pos + 1] \notin cls THEN 0
    ELSE 1 + RunLen(text, pos + 1, cls, cap - 1)

\* \b at offset pos
AtBoundary(text, pos) ==
    LET before == pos > 0 /\ text[pos] \in WordBytes
        after == pos < Len(text) /\ text[pos + 1] \in WordBytes
    IN before # after

\* end offset of the preferred match of atoms[i..] from pos, or -1
RECURSIVE MatchFrom(_, _, _, _, _), TryCount(_, _, _, _, _, _)
MatchFrom(atoms, i, text, pos, wb) ==
    IF i > Len(atoms)
    THEN IF wb /\ ~AtBoundary(text, pos) THEN -1 ELSE pos
    ELSE LET n == RunLen(text, pos, atoms[i].cls, atoms[i].max)
         IN IF n < atoms[i].min THEN -1
            ELSE TryCount(atoms, i, text, pos, wb, n)

TryCount(atoms, i, text, pos, wb, c) ==
    IF c < atoms[i].min THEN -1
    ELSE LET r == MatchFrom(atoms, i + 1, text, pos + c, wb)
         IN IF r # -1 THEN r ELSE TryCount(atoms, i, text, pos, wb, c - 1)

\* end offset of the match that starts exactly at pos, or -1
RECURSIVE MatchAlts(_, _, _, _)
MatchAlts(prog, a, text, pos) ==
    IF a > Len(prog.alts) THEN -1
    ELSE LET r == MatchFrom(prog.alts[a], 1, text, pos, prog.wb)
         IN IF r # -1 THEN r ELSE MatchAlts(prog, a + 1, text, pos)

MatchAt(prog, text, pos) ==
    IF prog.wb /\ ~AtBoundary(text, pos) THEN -1 ELSE MatchAlts(prog, 1, text, pos)

\* doExecute: the leftmost match at or after pos, <<start, end>> or <<-1, -1>>
RECURSIVE Leftmost(_, _, _)
Leftmost(prog, text, pos) ==
    IF pos > Len(text) THEN <<-1, -1>>
    ELSE LET e == MatchAt(prog, text, pos)
         IN IF e # -1 THEN <<pos, e>> ELSE Leftmost(prog, text, pos + 1)

\* allMatches: successive non-overlapping matches; an empty match directly
\* after the previous match is dropped, every other empty match is delivered
RECURSIVE AllMatches(_, _, _, _)
AllMatches(prog, text, pos, prevMatchEnd) ==
    IF pos > Len(text) THEN <<>>
    ELSE LET m == Leftmost(prog, text, pos)
         IN IF m[1] = -1 THEN <<>>
            ELSE LET empty == m[2] = pos
                     accept == ~(empty /\ m[1] = prevMatchEnd)
                     next == IF empty THEN pos + 1 ELSE m[2]
                     rest == AllMatches(prog, text, next, m[2])
                 IN IF accept THEN <<m>> \o rest ELSE rest

FindAllStringIndex(prog, text) == AllMatches(prog, text, 0, -1)

\* What regexp.Compile makes of the regex sources used by the model.  A source
\* outside RegexProg's domain ("(" and "*a" in the model) does not compile.
D(n) == Atom(DigitBytes, n, n)
Hyphen == One({"-"})

RegexProg ==
    ("ab" :> Prog(<<<<One({"a"}), One({"b"})>>>>, FALSE)) @@
    ("a*" :> Prog(<<<<Atom({"a"}, 0, -1)>>>>, FALSE)) @@
    ("a?b" :> Prog(<<<<Atom({"a"}, 0, 1), One({"b"})>>>>, FALSE)) @@
    ("b+" :> Prog(<<<<Atom({"b"}, 1, -1)>>>>, FALSE)) @@
    ("\\d+" :> Prog(<<<<Atom(DigitBytes, 1, -1)>>>>, FALSE)) @@
    ("\\x{e9}" :> Prog(<<<<One({"C3"}), One({"A9"})>>>>, FALSE)) @@
    ("\\x{e9}a?" :> Prog(<<<<One({"C3"}), One({"A9"}), Atom({"a"}, 0, 1)>>>>, FALSE)) @@
    ("\\b\\d{3}-\\d{2}-\\d{4}\\b" :> Prog(<<<<D(3), Hyphen, D(2), Hyphen, D(4)>>>>, TRUE)) @@
    ("\\b\\d{9}\\b" :> Prog(<<<<D(9)>>>>, TRUE)) @@
    ("\\b[0-9]{9}\\b" :> Prog(<<<<D(9)>>>>, TRUE)) @@
    ("\\d{3}-\\d{2}-\\d{5}" :> Prog(<<<<D(3), Hyphen, D(2), Hyphen, D(5)>>>>, FALSE)) @@
    ("\\b(?:4[0-9]{12}(?:[0-9]{3})?|5[1-5][0-9]{14}|3[47][0-9]{13}|6(?:011|5[0-9]{2})[0-9]{12})\\b" :>
        Prog(<<<<One({"4"}), D(15)>>,
               <<One({"4"}), D(12)>>,
               <<One({"5"}), One({"1", "2", "3", "4", "5"}), D(14)>>,
               <<One({"3"}), One({"4", "7"}), D(13)>>,
               <<One({"6"}), One({"0"}), One({"1"}), One({"1"}), D(12)>>,
               <<One({"6"}), One({"5"}), D(2), D(12)>>>>, TRUE)) @@
    ("\\d{4}[- ]?\\d{4}[- ]?\\d{4}[- ]?\\d{4}" :>
        Prog(<<<<D(4), Atom({"-", " "}, 0, 1), D(4), Atom({"-", " "}, 0, 1),
                 D(4), Atom({"-", " "}, 0, 1), D(4)>>>>, FALSE)) @@
    ("\\d{6}-[1-4]\\d{6}" :>
        Prog(<<<<D(6), Hyphen, One({"1", "2", "3", "4"}), D(6)>>>>, FALSE)) @@
    ("\\d{6}[1-4]\\d{6}" :>
        Prog(<<<<D(6), One({"1", "2", "3", "4"}), D(6)>>>>, FALSE))

\* regexp.Compile
Compile(src) ==
    IF src \in DOMAIN RegexProg
    THEN [ok |-> TRUE, re |-> RegexProg[src]]
    ELSE [ok |-> FALSE, re |-> Prog(<<>>, FALSE)]

(***************************************************************************)
(* Validator registry                                                      *)
(***************************************************************************)

LuhnMinDigits == 13
LuhnMaxDigits == 19
RRNDigits == 13
BusinessNumberDigits == 10

\* strings.Map keeping the digits
OnlyDigits(input) == SelectSeq(input, LAMBDA b : b \in DigitBytes)

\* strings.ReplaceAll(input, "-", "")
StripHyphens(input) == SelectSeq(input, LAMBDA b : b # "-")

\* the Luhn loop from index i (1-based) down to 1
RECURSIVE LuhnSum(_, _, _)
LuhnSum(digits, i, alt) ==
    IF i < 1 THEN 0
    ELSE LET n == DigitVal(digits[i])
             d == IF alt THEN (IF 2 * n > 9 THEN 2 * n - 9 ELSE 2 * n) ELSE n
         IN d + LuhnSum(digits, i - 1, ~alt)

LuhnValidate(input) ==
    LET digits == OnlyDigits(input)
    IN IF Len(digits) < LuhnMinDigits \/ Len(digits) > LuhnMaxDigits THEN FALSE
       ELSE LuhnSum(digits, Len(digits), FALSE) % 10 = 0

RECURSIVE WeightedSum(_, _, _)
WeightedSum(digits, weights, i) ==
    IF i > Len(weights) THEN 0
    ELSE DigitVal(digits[i]) * weights[i] + WeightedSum(digits, weights, i + 1)

RRNWeights == <<2, 3, 4, 5, 6, 7, 8, 9, 2, 3, 4, 5>>

KoreanRRNValidate(input) ==
    LET digits == StripHyphens(input)
    IN IF Len(digits) # RRNDigits THEN FALSE
       ELSE IF \E i \in 1..Len(digits) : digits[i] \notin DigitBytes THEN FALSE
       ELSE LET sum == WeightedSum(digits, RRNWeights, 1)
                expected == (11 - (sum % 11)) % 10
            IN DigitVal(digits[13]) = expected

BusinessNumberWeights == <<1, 3, 7, 1, 3, 7, 1, 3, 5>>

KoreanBusinessNumberValidate(input) ==
    LET digits == StripHyphens(input)
    IN IF Len(digits) # BusinessNumberDigits THEN FALSE
       ELSE IF \E i \in 1..Len(digits) : digits[i] \notin DigitBytes THEN FALSE
       ELSE LET sum == WeightedSum(digits, BusinessNumberWeights, 1)
                       + ((DigitVal(digits[9]) * 5) \div 10)
                expected == (10 - (sum % 10)) % 10
            IN DigitVal(digits[10]) = expected

\* validator.Registry (the IBAN validator is registered but no pattern of the
\* model names it)
Registry == {"luhn", "rrn-checksum", "business-number-checksum"}

\* v.Validate(matchedText) for a registered validator
Validate(name, input) ==
    CASE name = "luhn" -> LuhnValidate(input)
      [] name = "rrn-checksum" -> KoreanRRNValidate(input)
      [] name = "business-number-checksum" -> KoreanBusinessNumberValidate(input)
      [] OTHER -> TRUE

(***************************************************************************)
(* patterns package: specs, masking strategies, the built-in table         *)
(***************************************************************************)

Strategy(type, first, last, maskChar, replacement) ==
    [Type |-> type, ShowFirst |-> first, ShowLast |-> last,
     MaskChar |-> maskChar, Replacement |-> replacement]

\* MaskingStrategy{}
ZeroStrategy == Strategy("", 0, 0, <<>>, <<>>)

Rule(regex, confidence) == [Regex |-> regex, Confidence |-> confidence]

PatternSpec(display, category, rules, validatorName, strategy, severity, enabled) ==
    [DisplayName |-> display, Category |-> category, Patterns |-> rules,
     Validator |-> validatorName, MaskingStrategy |-> strategy,
     Severity |-> severity, Enabled |-> enabled]

CatUSA == <<"u", "s", "a">>
CatKorea == <<"k", "o", "r", "e", "a">>

KeySSN == <<"s", "s", "n", "-", "u", "s">>
KeyPassport == <<"p", "a", "s", "s", "p", "o", "r", "t", "-", "u", "s">>
KeyBRN == <<"b", "r", "n", "-", "k", "r">>

\* patterns.BuiltInPatterns, the entries the model loads
BuiltInPatterns ==
    (KeySSN :> PatternSpec("US Social Security Number", CatUSA,
                 <<Rule("\\b\\d{3}-\\d{2}-\\d{4}\\b", "high"), Rule("\\b\\d{9}\\b", "low")>>,
                 "", Strategy("partial", 0, 4, <<"*">>, <<>>), "critical", TRUE)) @@
    (KeyPassport :> PatternSpec("US Passport Number", CatUSA,
                 <<Rule("\\b[0-9]{9}\\b", "low")>>,
                 "", Strategy("partial", 2, 0, <<"*">>, <<>>), "critical", FALSE)) @@
    (KeyBRN :> PatternSpec("Korean Business Registration Number", CatKorea,
                 <<Rule("\\d{3}-\\d{2}-\\d{5}", "high")>>,
                 "business-number-checksum", Strategy("partial", 3, 0, <<"*">>, <<>>),
                 "high", TRUE))

CatGlobal == <<"g", "l", "o", "b", "a", "l">>

KeyCreditCard == <<"c", "r", "e", "d", "i", "t", "-", "c", "a", "r", "d">>
KeyRRN == <<"k", "o", "r", "e", "a", "n", "-", "r", "r", "n">>

\* patterns.BuiltInPatterns, the entries for payment cards and resident
\* numbers
IdentityPatterns ==
    (KeyCreditCard :> PatternSpec("Credit Card Number", CatGlobal,
                 <<Rule("\\b(?:4[0-9]{12}(?:[0-9]{3})?|5[1-5][0-9]{14}|3[47][0-9]{13}|6(?:011|5[0-9]{2})[0-9]{12})\\b", "high"),
                   Rule("\\d{4}[- ]?\\d{4}[- ]?\\d{4}[- ]?\\d{4}", "medium")>>,
                 "luhn", Strategy("partial", 4, 4, <<"*">>, <<>>), "critical", TRUE)) @@
    (KeyRRN :> PatternSpec("Korean Resident Registration Number", CatKorea,
                 <<Rule("\\d{6}-[1-4]\\d{6}", "high"), Rule("\\d{6}[1-4]\\d{6}", "medium")>>,
                 "rrn-checksum", Strategy("partial", 6, 0, <<"*">>, <<>>), "critical", TRUE))

(***************************************************************************)
(* detector.Engine                                                         *)
(***************************************************************************)

CompiledRule(re, confidence) == [Regex |-> re, Confidence |-> confidence]

\* the rules of spec compiled in order, up to but excluding the first that fails
RECURSIVE CompilePrefix(_, _)
CompilePrefix(rules, i) ==
    IF i > Len(rules) \/ ~Compile(rules[i].Regex).ok THEN <<>>
    ELSE <<CompiledRule(Compile(rules[i].Regex).re, rules[i].Confidence)>>
         \o CompilePrefix(rules, i + 1)

\* the rules of spec that compile, in order (loadBuiltInPatterns skips the others)
CompileValid(rules) ==
    LET valid == SelectSeq(rules, LAMBDA r : Compile(r.Regex).ok)
    IN [i \in 1..Len(valid) |-> CompiledRule(Compile(valid[i].Regex).re, valid[i].Confidence)]

Put(f, k, v) == [x \in DOMAIN f \cup {k} |-> IF x = k THEN v ELSE f[x]]
Delete(f, k) == [x \in DOMAIN f \ {k} |-> f[x]]

\* the loop of loadBuiltInPatterns over the entries specs
LoadPatterns(specs) ==
    [name \in DOMAIN specs |->
        [Name |-> name,
         DisplayName |-> specs[name].DisplayName,
         Category |-> specs[name].Category,
         Patterns |-> CompileValid(specs[name].Patterns),
         Validator |-> specs[name].Validator,
         MaskingStrategy |-> specs[name].MaskingStrategy,
         Severity |-> specs[name].Severity,
         Enabled |-> specs[name].Enabled]]

\* loadBuiltInPatterns
LoadBuiltInPatterns == LoadPatterns(BuiltInPatterns)

\* the CompiledPattern literal of AddPattern: Category and Enabled are not
\* set and keep Go's zero values
NewCompiledPattern(name, spec, rules) ==
    [Name |-> name,
     DisplayName |-> spec.DisplayName,
     Category |-> <<>>,
     Patterns |-> rules,
     Validator |-> spec.Validator,
     MaskingStrategy |-> spec.MaskingStrategy,
     Severity |-> spec.Severity,
     Enabled |-> FALSE]

\* AddPattern that keeps the rules compiled before the failure, the way
\* loadBuiltInPatterns skips an invalid rule
AddPatternResultPartial(pats, name, spec) ==
    LET rules == CompilePrefix(spec.Patterns, 1)
    IN [err |-> Len(rules) < Len(spec.Patterns),
        patterns |-> Put(pats, name, NewCompiledPattern(name, spec, rules))]

\* AddPattern as a function of the catalog: the error result and the catalog
\* after the call
AddPatternResult(pats, name, spec) ==
    LET rules == CompilePrefix(spec.Patterns, 1)
    IN IF Len(rules) < Len(spec.Patterns)
       THEN [err |-> TRUE, patterns |-> pats]
       ELSE [err |-> FALSE, patterns |-> Put(pats, name, NewCompiledPattern(name, spec, rules))]

\* sync.RWMutex: Lock waits for the readers and the writer to leave, RLock for
\* the writer
CanLock(m) == m.readers = 0 /\ ~m.writer

\* a read lock that does not wait for the writer
CanRLockDuringWrite(m) == TRUE

CanRLock(m) == ~m.writer

\* one DetectionResult
Detection(pattern, rule, m, text) ==
    [PatternName |-> pattern.Name,
     DisplayName |-> pattern.DisplayName,
     MatchedText |-> Slice(text, m[1], m[2]),
     Position |-> [Start |-> m[1], End |-> m[2]],
     Confidence |-> rule.Confidence,
     Severity |-> pattern.Severity,
     RedactedText |-> <<>>]

\* a match loop without the validator check
AcceptsUnchecked(pattern, matchedText, validation) == TRUE

\* the validator check of the match loop: FALSE when the match is dropped
Accepts(pattern, matchedText, validation) ==
    IF validation /\ pattern.Validator # "" /\ pattern.Validator \in Registry
    THEN Validate(pattern.Validator, matchedText)
    ELSE TRUE

\* the detections one rule appends, in match order
RuleDetections(pattern, rule, text, validation) ==
    LET kept == SelectSeq(FindAllStringIndex(rule.Regex, text),
                          LAMBDA m : Accepts(pattern, Slice(text, m[1], m[2]), validation))
    IN [i \in 1..Len(kept) |-> Detection(pattern, rule, kept[i], text)]

\* the detections one pattern appends: its rules in order
RECURSIVE PatternDetectionsFrom(_, _, _, _)
PatternDetectionsFrom(pattern, i, text, validation) ==
    IF i > Len(pattern.Patterns) THEN <<>>
    ELSE RuleDetections(pattern, pattern.Patterns[i], text, validation)
         \o PatternDetectionsFrom(pattern, i + 1, text, validation)

PatternDetections(pattern, text, validation) ==
    PatternDetectionsFrom(pattern, 1, text, validation)

\* what a scan records for a name that is not in the catalog
Absent == [absent |-> TRUE]
Lookup(pats, k) == IF k \in DOMAIN pats THEN pats[k] ELSE Absent

\* ctx is the context the caller passes ("live" until it is cancelled), err
\* the error the call returns; atStart records that ctx was cancelled when
\* the call began
IdleCall ==
    [pc |-> "idle", op |-> "", redact |-> FALSE, text |-> <<>>, names |-> <<>>,
     seen |-> <<>>, hist |-> {}, results |-> <<>>,
     redacted |-> <<>>, i |-> 0, ctx |-> "live", err |-> "nil", atStart |-> FALSE]

\* Bookkeeping for the analysis (observed): the arguments, the catalog and
\* the result of the last DetectInText call that returned without error,
\* recorded while on
NotObserved(on) ==
    [on |-> on, valid |-> FALSE, text |-> <<>>, catalog |-> <<>>, validation |-> FALSE,
     results |-> <<>>]

Observe(o, c, pats, validation) ==
    IF o.on /\ c.op = "DetectInText" /\ c.err = "nil"
    THEN [on |-> TRUE, valid |-> TRUE, text |-> c.text, catalog |-> pats,
          validation |-> validation, results |-> c.results]
    ELSE o

IdleToggle ==
    [pc |-> "idle", enable |-> FALSE, category |-> <<>>, visited |-> {}, count |-> 0,
     before |-> <<>>]

\* Bookkeeping for the analysis (call.hist, toggle.before): the catalog states
\* between mutations that existed while the current scan was running.  A
\* catalog in the middle of a by-category loop is not such a state.
Committed(pats, t) == IF t.pc = "run" THEN t.before ELSE pats

NoteCatalog(c, pats) ==
    IF c.pc = "scan" THEN [c EXCEPT !.hist = @ \cup {pats}] ELSE c

(***************************************************************************)
(* Inputs                                                                  *)
(***************************************************************************)

MaxTextLen == 3

TextBytes == {"a", "b"}

RECURSIVE SeqsUpTo(_, _)
SeqsUpTo(S, n) ==
    IF n = 0 THEN {<<>>}
    ELSE LET shorter == SeqsUpTo(S, n - 1)
         IN shorter \cup {Append(t, b) : t \in {u \in shorter : Len(u) = n - 1}, b \in S}

TextNineDigits == <<"1", "2", "3", "4", "5", "6", "7", "8", "9">>
TextBRNValid == <<"1", "2", "3", "-", "4", "5", "-", "6", "7", "8", "9", "1">>
TextBRNInvalid == <<"1", "2", "3", "-", "4", "5", "-", "6", "7", "8", "9", "0">>

Texts == SeqsUpTo(TextBytes, MaxTextLen) \cup {TextNineDigits, TextBRNValid, TextBRNInvalid}

KeyCustom == <<"n", "s", "/", "p">>
KeyMissing == <<"n", "s", "/", "q">>

CustomKeys == {KeyCustom}
EngineKeys == DOMAIN BuiltInPatterns \cup CustomKeys

SpecAB ==
    PatternSpec("AB", <<"c">>, <<Rule("ab", "high"), Rule("a?b", "medium")>>,
                "", Strategy("full", 0, 0, <<>>, <<"R">>), "high", TRUE)
SpecStar ==
    PatternSpec("Star", <<"c">>, <<Rule("a*", "low")>>,
                "", Strategy("hash", 0, 0, <<>>, <<>>), "low", TRUE)
SpecDigits ==
    PatternSpec("Digits", <<"c">>, <<Rule("\\d+", "high")>>,
                "no-such-validator", Strategy("partial", 1, 1, <<"#">>, <<>>), "medium", FALSE)
SpecBad ==
    PatternSpec("Bad", <<"c">>, <<Rule("b+", "high"), Rule("(", "high")>>,
                "", Strategy("full", 0, 0, <<>>, <<>>), "low", TRUE)

SpecPool == {SpecAB, SpecStar, SpecDigits, SpecBad}

NameLists == {<<KeyCustom>>, <<KeySSN, KeyPassport>>, <<KeyMissing, KeyBRN>>}

ToggleCategories == {CatUSA, CatKorea}

(***************************************************************************)
(* Engine operations                                                       *)
(***************************************************************************)

\* AddPattern: compiles outside the lock, inserts under it
AddPattern(name, spec) ==
    LET r == AddPatternResult(patterns, name, spec)
    IN /\ r.err \/ CanLock(mu)
       /\ patterns' = r.patterns
       /\ addErr' = IF r.err THEN "error" ELSE "nil"
       /\ call' = NoteCatalog(call, patterns')
       /\ UNCHANGED <<validationEnabled, mu, toggle, supplyVars, observed, updater, semver>>

RemovePattern(name) ==
    /\ CanLock(mu)
    /\ patterns' = Delete(patterns, name)
    /\ call' = NoteCatalog(call, patterns')
    /\ UNCHANGED <<validationEnabled, mu, toggle, addErr, supplyVars, observed, updater, semver>>

SetEnabled(pats, name, enabled) ==
    IF name \in DOMAIN pats THEN [pats EXCEPT ![name].Enabled = enabled] ELSE pats

EnablePattern(name) ==
    /\ CanLock(mu)
    /\ patterns' = SetEnabled(patterns, name, TRUE)
    /\ call' = NoteCatalog(call, patterns')
    /\ UNCHANGED <<validationEnabled, mu, toggle, addErr, supplyVars, observed, updater, semver>>

DisablePattern(name) ==
    /\ CanLock(mu)
    /\ patterns' = SetEnabled(patterns, name, FALSE)
    /\ call' = NoteCatalog(call, patterns')
    /\ UNCHANGED <<validationEnabled, mu, toggle, addErr, supplyVars, observed, updater, semver>>

EnableValidation ==
    /\ CanLock(mu)
    /\ validationEnabled' = TRUE
    /\ UNCHANGED <<patterns, mu, call, toggle, addErr, supplyVars, observed, updater, semver>>

DisableValidation ==
    /\ CanLock(mu)
    /\ validationEnabled' = FALSE
    /\ UNCHANGED <<patterns, mu, call, toggle, addErr, supplyVars, observed, updater, semver>>

\* Enable/DisablePatternsByCategory: Lock, one loop iteration per pattern, Unlock
ToggleBegin(category, enable) ==
    /\ toggle.pc = "idle"
    /\ CanLock(mu)
    /\ mu' = [mu EXCEPT !.writer = TRUE]
    /\ toggle' = [IdleToggle EXCEPT !.pc = "run", !.enable = enable, !.category = category,
                                    !.before = patterns]
    /\ UNCHANGED <<patterns, validationEnabled, call, addErr, supplyVars, observed, updater, semver>>

ToggleStep(k) ==
    /\ toggle.pc = "run"
    /\ k \in DOMAIN patterns \ toggle.visited
    /\ IF patterns[k].Category = toggle.category
       THEN /\ patterns' = [patterns EXCEPT ![k].Enabled = toggle.enable]
            /\ toggle' = [toggle EXCEPT !.visited = @ \cup {k}, !.count = @ + 1]
       ELSE /\ patterns' = patterns
            /\ toggle' = [toggle EXCEPT !.visited = @ \cup {k}]
    /\ UNCHANGED <<validationEnabled, mu, call, addErr, supplyVars, observed, updater, semver>>

\* the loop is over: toggle.count is what the call returns
ToggleReady == toggle.pc = "run" /\ DOMAIN patterns \subseteq toggle.visited

ToggleEnd ==
    /\ ToggleReady
    /\ mu' = [mu EXCEPT !.writer = FALSE]
    /\ toggle' = IdleToggle
    /\ call' = NoteCatalog(call, patterns)
    /\ UNCHANGED <<patterns, validationEnabled, addErr, supplyVars, observed, updater, semver>>

\* DetectInText: RLock, then one loop iteration per catalog entry
DetectBegin(text, redact) ==
    /\ call.pc = "idle"
    /\ CanRLock(mu)
    /\ mu' = [mu EXCEPT !.readers = @ + 1]
    /\ call' = [IdleCall EXCEPT !.pc = "scan", !.op = "DetectInText", !.redact = redact,
                                !.text = text, !.hist = {Committed(patterns, toggle)},
                                !.ctx = call.ctx, !.atStart = (call.ctx = "cancelled")]
    /\ UNCHANGED <<patterns, validationEnabled, toggle, addErr, supplyVars, observed, updater, semver>>

\* the map iteration reaches entry k: a disabled entry is skipped; before an
\* enabled one is scanned, a cancelled ctx ends the call with ctx.Err()
DetectScan(k) ==
    /\ call.pc = "scan" /\ call.op = "DetectInText" /\ call.err = "nil"
    /\ k \in DOMAIN patterns \ DOMAIN call.seen
    /\ call' = IF patterns[k].Enabled /\ call.ctx = "cancelled"
               THEN [call EXCEPT !.err = "cancelled"]
               ELSE [call EXCEPT
                  !.seen = Put(@, k, patterns[k]),
                  !.results = IF patterns[k].Enabled
                              THEN @ \o PatternDetections(patterns[k], call.text, validationEnabled)
                              ELSE @]
    /\ UNCHANGED <<patterns, validationEnabled, mu, toggle, addErr, supplyVars, observed, updater, semver>>

\* DetectWithPatterns: RLock, then one loop iteration per requested name
DetectWithPatternsBegin(text, names, redact) ==
    /\ call.pc = "idle"
    /\ CanRLock(mu)
    /\ mu' = [mu EXCEPT !.readers = @ + 1]
    /\ call' = [IdleCall EXCEPT !.pc = "scan", !.op = "DetectWithPatterns", !.redact = redact,
                                !.text = text, !.names = names,
                                !.hist = {Committed(patterns, toggle)},
                                !.ctx = call.ctx, !.atStart = (call.ctx = "cancelled")]
    /\ UNCHANGED <<patterns, validationEnabled, toggle, addErr, supplyVars, observed, updater, semver>>

\* the loop reaches the next name: a name that is not in the catalog is
\* skipped; before a pattern is scanned, a cancelled ctx ends the call
DetectWithPatternsScan ==
    /\ call.pc = "scan" /\ call.op = "DetectWithPatterns" /\ call.err = "nil"
    /\ call.names # <<>>
    /\ LET name == Head(call.names)
       IN call' = IF name \in DOMAIN patterns /\ call.ctx = "cancelled"
                  THEN [call EXCEPT !.err = "cancelled"]
                  ELSE [call EXCEPT
                     !.names = Tail(@),
                     !.seen = Put(@, name, Lookup(patterns, name)),
                     !.results = IF name \in DOMAIN patterns
                                 THEN @ \o PatternDetections(patterns[name], call.text, validationEnabled)
                                 ELSE @]
    /\ UNCHANGED <<patterns, validationEnabled, mu, toggle, addErr, supplyVars, observed, updater, semver>>

ScanFinished ==
    \/ call.err # "nil"
    \/ IF call.op = "DetectInText"
       THEN DOMAIN patterns \subseteq DOMAIN call.seen
       ELSE call.names = <<>>

\* the loop is over: call.results is what the call returns
ResultReady == call.pc = "scan" /\ ScanFinished

\* the caller cancels the context it passes (before the call or during it)
Cancel ==
    /\ call.pc \in {"idle", "scan"}
    /\ call.ctx = "live"
    /\ call' = [call EXCEPT !.ctx = "cancelled"]
    /\ UNCHANGED <<patterns, validationEnabled, mu, toggle, addErr, supplyVars, observed, updater, semver>>

\* return of Detect / DetectWithPatterns (the deferred RUnlock); inside Redact
\* the call goes on to sort the detections, unless the detection failed.
\* Bookkeeping for the analysis: inside Redact call.seen keeps the catalog
\* entries the detection read.
DetectReturn ==
    /\ ResultReady
    /\ mu' = [mu EXCEPT !.readers = @ - 1]
    /\ call' = IF call.redact /\ call.err = "nil"
               THEN [call EXCEPT !.pc = "sort", !.hist = {}]
               ELSE IdleCall
    /\ observed' = Observe(observed, call, patterns, validationEnabled)
    /\ UNCHANGED <<patterns, validationEnabled, toggle, addErr, supplyVars, updater, semver>>

\* NewUpdater: no subscription has been fetched and no call has returned yet.
\* result is the reconciler's copy of what its Subscribe call returned.
\* Bookkeeping for the analysis: recorded tells that the status list was
\* written from a Subscribe result, origin and resultOrigin hold the
\* <<pattern name, rule set name, rule set version>> triples that the
\* Subscribe behind the status list (behind result) registered
NewUpdater ==
    [pc |-> "idle", loaded |-> FALSE, Spec |-> <<>>,
     SubscribedPatternList |-> <<>>, SubscribedPatterns |-> 0,
     result |-> <<>>, pendingUpdates |-> <<>>, policy |-> [isNil |-> TRUE],
     autoApply |-> <<>>, requireApproval |-> <<>>,
     recorded |-> FALSE, origin |-> {}, resultOrigin |-> {}]

InitEngine ==
    /\ patterns = LoadBuiltInPatterns
    /\ validationEnabled = TRUE
    /\ mu = [readers |-> 0, writer |-> FALSE]
    /\ call = IdleCall
    /\ toggle = IdleToggle
    /\ addErr = "none"

InitSupply ==
    /\ sources = <<>>
    /\ cachePatterns = <<>>
    /\ subResult = [SubscribedPatterns |-> <<>>, TotalPatterns |-> 0, Errors |-> <<>>,
                    Registered |-> {}]
    /\ unsubscribed = <<>>

\* no constraint has been evaluated
NoMatching == [pc |-> "idle"]

Init ==
    /\ InitEngine /\ InitSupply /\ observed = NotObserved(FALSE) /\ updater = NewUpdater
    /\ semver = NoMatching

Next ==
    \/ \E name \in CustomKeys, spec \in SpecPool : AddPattern(name, spec)
    \/ \E name \in CustomKeys : RemovePattern(name)
    \/ \E name \in EngineKeys : EnablePattern(name)
    \/ \E name \in EngineKeys : DisablePattern(name)
    \/ EnableValidation
    \/ DisableValidation
    \/ \E category \in ToggleCategories, enable \in BOOLEAN : ToggleBegin(category, enable)
    \/ \E k \in EngineKeys : ToggleStep(k)
    \/ ToggleEnd
    \/ \E text \in Texts : DetectBegin(text, FALSE)
    \/ \E k \in EngineKeys : DetectScan(k)
    \/ \E text \in Texts, names \in NameLists : DetectWithPatternsBegin(text, names, FALSE)
    \/ DetectWithPatternsScan
    \/ DetectReturn

Spec == Init /\ [][Next]_vars

(***************************************************************************)
(* Properties of the engine                                                *)
(***************************************************************************)

CompileFails(spec) == \E i \in 1..Len(spec.Patterns) : ~Compile(spec.Patterns[i].Regex).ok

\* C1: when a regex of the spec does not compile, AddPattern returns an error
\* and leaves the catalog (keys, entries, enabled flags) as it was; otherwise
\* the one step of AddPattern inserts or replaces exactly the entry under the
\* key, with every rule of the spec compiled.
C1_AddPatternAllOrNothing ==
    [][\A name \in CustomKeys, spec \in SpecPool :
          AddPattern(name, spec) =>
              IF CompileFails(spec)
              THEN addErr' = "error" /\ patterns' = patterns
              ELSE /\ addErr' = "nil"
                   /\ DOMAIN patterns' = DOMAIN patterns \cup {name}
                   /\ \A k \in DOMAIN patterns \ {name} : patterns'[k] = patterns[k]
                   /\ Len(patterns'[name].Patterns) = Len(spec.Patterns)
                   /\ \A i \in 1..Len(spec.Patterns) :
                          patterns'[name].Patterns[i].Regex = Compile(spec.Patterns[i].Regex).re]_vars

\* a failed AddPattern on a key that holds an entry
C1_Witness == addErr = "error" /\ KeyCustom \in DOMAIN patterns

\* the detections a scan of catalog c returns, as a set
DetectionsOf(c, keys, text, validation) ==
    UNION {Range(PatternDetections(c[k], text, validation)) : k \in keys}

\* C2: a Detect or DetectWithPatterns call sees every pattern as it is in one
\* catalog state that existed between mutations during the call, never a
\* mixture of two such states: the entries it has read so far all come from
\* one of them, and what it returns is the scan of that state.
C2_SnapshotConsistent ==
    call.pc = "scan" =>
        \E c \in call.hist :
            /\ \A k \in DOMAIN call.seen : call.seen[k] = Lookup(c, k)
            /\ ResultReady =>
                  /\ call.op = "DetectInText" => DOMAIN call.seen = DOMAIN c
                  /\ Range(call.results) =
                        DetectionsOf(c, IF call.op = "DetectInText"
                                        THEN {k \in DOMAIN c : c[k].Enabled}
                                        ELSE DOMAIN call.seen \cap DOMAIN c,
                                     call.text, validationEnabled)

\* a finished scan of a catalog that mutations have changed
C2_Witness ==
    /\ ResultReady /\ call.op = "DetectInText"
    /\ patterns[KeyPassport].Enabled /\ ~patterns[KeySSN].Enabled
    /\ KeyCustom \in DOMAIN patterns
    /\ call.results # <<>>

\* C5: every detection satisfies 0 <= start < end <= len(text) and
\* text[start..end) is its matched text.
C5_DetectionRange ==
    call.pc = "scan" =>
        \A i \in 1..Len(call.results) :
            LET d == call.results[i]
            IN /\ 0 <= d.Position.Start
               /\ d.Position.Start < d.Position.End
               /\ d.Position.End <= Len(call.text)
               /\ Slice(call.text, d.Position.Start, d.Position.End) = d.MatchedText

C7_AddPatternKeepsEnabled ==
    [][\A name \in CustomKeys, spec \in SpecPool :
          (AddPattern(name, spec) /\ addErr' = "nil") =>
              patterns'[name].Enabled = spec.Enabled]_vars

(***************************************************************************)
(* source package: rule sets and the cache                                 *)
(***************************************************************************)

\* source.PatternDefinition
PatternDefinition(name, display, category, rules, validatorName, strategy, severity, enabled) ==
    [Name |-> name, DisplayName |-> display, Category |-> category, Patterns |-> rules,
     Validator |-> validatorName, MaskingStrategy |-> strategy,
     Severity |-> severity, Enabled |-> enabled]

\* source.RuleSet
RuleSet(name, version, maturity, defs) ==
    [Name |-> name, Version |-> version, Maturity |-> maturity, Patterns |-> defs]

\* PatternDefinition.ToPatternSpec
ToPatternSpec(p) ==
    PatternSpec(p.DisplayName, p.Category,
                [i \in 1..Len(p.Patterns) |-> Rule(p.Patterns[i].Regex, p.Patterns[i].Confidence)],
                p.Validator, p.MaskingStrategy, p.Severity, p.Enabled)

Slash == <<"/">>

\* Cache.patternKey
patternKey(sourceName, ruleSetName, patternName) ==
    sourceName \o Slash \o ruleSetName \o Slash \o patternName

CachedPattern(sourceName, ruleSetName, p) ==
    [SourceName |-> sourceName, RuleSetName |-> ruleSetName, Pattern |-> p]

RECURSIVE SumLen(_, _)
SumLen(ruleSets, i) ==
    IF i > Len(ruleSets) THEN 0 ELSE Len(ruleSets[i].Patterns) + SumLen(ruleSets, i + 1)

\* the greatest element of a non-empty set of integers
Last(S) == CHOOSE i \in S : \A j \in S : j <= i

\* the index entries the loops of SetSource write: one per key, from the last
\* rule set and pattern (in loop order) that have the key
SetSourceEntries(name, ruleSets) ==
    LET keyAt(j, i) == patternKey(name, ruleSets[j].Name, ruleSets[j].Patterns[i].Name)
        keys == UNION {{keyAt(j, i) : i \in 1..Len(ruleSets[j].Patterns)} :
                          j \in 1..Len(ruleSets)}
    IN [key \in keys |->
           LET j == Last({x \in 1..Len(ruleSets) :
                            \E i \in 1..Len(ruleSets[x].Patterns) : keyAt(x, i) = key})
               i == Last({y \in 1..Len(ruleSets[j].Patterns) : keyAt(j, y) = key})
           IN CachedPattern(name, ruleSets[j].Name, ruleSets[j].Patterns[i])]

\* the keys the loops of RemoveSource delete
RuleSetKeys(name, ruleSets) ==
    UNION {{patternKey(name, ruleSets[j].Name, ruleSets[j].Patterns[i].Name) :
               i \in 1..Len(ruleSets[j].Patterns)} : j \in 1..Len(ruleSets)}

\* Cache.ListPatternsForSource, as a set (the order is the map's)
ListPatternsForSource(index, sourceName) ==
    {key \in DOMAIN index : index[key].SourceName = sourceName}

\* Cache.Stats
Stats == [SourceCount |-> Cardinality(DOMAIN sources),
          PatternCount |-> Cardinality(DOMAIN cachePatterns)]

CachedSource(name, ruleSets, total, err) ==
    [Name |-> name, RuleSets |-> ruleSets, TotalPatterns |-> total, Error |-> err]

(***************************************************************************)
(* Inputs of the cache and the subscription manager                        *)
(***************************************************************************)

CatSecrets == <<"s", "e", "c", "r", "e", "t", "s">>
CatKoreaMobile == <<"k", "o", "r", "e", "a", "/", "m", "o", "b", "i", "l", "e">>
CatKoreaX == <<"k", "o", "r", "e", "a", "x">>

NameAwsAccess == <<"a", "w", "s", "-", "a", "c", "c", "e", "s", "s">>
NameAwsSecret == <<"a", "w", "s", "-", "s", "e", "c", "r", "e", "t">>
NameGithubToken == <<"g", "i", "t", "h", "u", "b", "-", "t", "o", "k", "e", "n">>
NamePhone == <<"p", "h", "o", "n", "e">>
NameCell == <<"c", "e", "l", "l">>
NameFax == <<"f", "a", "x">>
NameBroken == <<"b", "r", "o", "k", "e", "n">>

DefAwsAccess ==
    PatternDefinition(NameAwsAccess, "AWS Access Key", CatSecrets, <<Rule("ab", "high")>>,
                      "", Strategy("full", 0, 0, <<>>, <<"R">>), "high", TRUE)
DefAwsSecret ==
    PatternDefinition(NameAwsSecret, "AWS Secret Key", CatSecrets, <<Rule("b+", "medium")>>,
                      "", Strategy("hash", 0, 0, <<>>, <<>>), "high", TRUE)
DefGithubToken ==
    PatternDefinition(NameGithubToken, "GitHub Token", CatSecrets, <<Rule("\\d+", "high")>>,
                      "", Strategy("tokenize", 0, 0, <<>>, <<>>), "medium", FALSE)
DefPhone ==
    PatternDefinition(NamePhone, "Phone", CatKorea, <<Rule("a?b", "low")>>,
                      "", Strategy("partial", 1, 1, <<"#">>, <<>>), "low", TRUE)
DefCell ==
    PatternDefinition(NameCell, "Cell", CatKoreaMobile, <<Rule("a*", "low")>>,
                      "", Strategy("partial", 0, 2, <<>>, <<>>), "low", FALSE)
DefFax ==
    PatternDefinition(NameFax, "Fax", CatKoreaX, <<Rule("ab", "low")>>,
                      "", ZeroStrategy, "low", TRUE)
DefBroken ==
    PatternDefinition(NameBroken, "Broken", CatSecrets, <<Rule("ab", "high"), Rule("(", "high")>>,
                      "", ZeroStrategy, "low", TRUE)

RsNameR == <<"r">>
RsNameK == <<"k">>
RsNameX == <<"x">>

RuleSetSecrets1 ==
    RuleSet(RsNameR, <<"1", ".", "0", ".", "0">>, "stable", <<DefAwsAccess, DefAwsSecret, DefGithubToken>>)
RuleSetSecrets2 ==
    RuleSet(RsNameR, <<"2", ".", "1", ".", "0">>, "stable", <<DefAwsAccess, DefBroken>>)
RuleSetKorea ==
    RuleSet(RsNameK, <<"0", ".", "5", ".", "0">>, "incubating", <<DefPhone, DefCell, DefFax>>)
RuleSetSandbox ==
    RuleSet(RsNameX, <<"v", "1", ".", "2", ".", "3", "-", "r", "c">>, "sandbox", <<DefPhone>>)

SourceNamespace == <<"n">>
SourceName == <<"s">>
SourceNS == <<"n", "/", "s">>
SourceT == <<"t">>

SourceKeys == {SourceNS}

\* the rule-set lists a fetch delivers for the source
RuleSetLists ==
    {<<RuleSetSecrets1>>, <<RuleSetSecrets2, RuleSetKorea, RuleSetSandbox>>}

SourceErrors == {"fetch failed"}

(***************************************************************************)
(* Cache operations                                                        *)
(***************************************************************************)

SetSource(name, ruleSets) ==
    /\ sources' = Put(sources, name, CachedSource(name, ruleSets, SumLen(ruleSets, 1), ""))
    /\ cachePatterns' = SetSourceEntries(name, ruleSets) @@ cachePatterns
    /\ UNCHANGED <<engineVars, subResult, unsubscribed, observed, updater, semver>>

SetSourceError(name, err) ==
    /\ sources' = IF name \in DOMAIN sources
                  THEN [sources EXCEPT ![name].Error = err]
                  ELSE Put(sources, name, CachedSource(name, <<>>, 0, err))
    /\ UNCHANGED <<engineVars, cachePatterns, subResult, unsubscribed, observed, updater, semver>>

RemoveSource(name) ==
    /\ cachePatterns' = IF name \in DOMAIN sources
                        THEN [key \in DOMAIN cachePatterns
                                      \ RuleSetKeys(name, sources[name].RuleSets)
                                 |-> cachePatterns[key]]
                        ELSE cachePatterns
    /\ sources' = Delete(sources, name)
    /\ UNCHANGED <<engineVars, subResult, unsubscribed, observed, updater, semver>>

Clear ==
    /\ sources' = <<>>
    /\ cachePatterns' = <<>>
    /\ UNCHANGED <<engineVars, subResult, unsubscribed, observed, updater, semver>>

(***************************************************************************)
(* subscription package: semantic versions and constraints                 *)
(***************************************************************************)

\* strings.TrimPrefix
TrimPrefix(s, p) == IF HasPrefix(s, p) THEN SubSeq(s, Len(p) + 1, Len(s)) ELSE s

\* the separators of a constraint list, [,\s]+ (of the white space only the
\* blank occurs in the inputs)
SpaceBytes == {" "}
SeparatorBytes == SpaceBytes \cup {","}

\* strings.TrimSpace
RECURSIVE TrimSpace(_)
TrimSpace(s) ==
    IF s # <<>> /\ Head(s) \in SpaceBytes THEN TrimSpace(Tail(s))
    ELSE IF s # <<>> /\ s[Len(s)] \in SpaceBytes THEN TrimSpace(SubSeq(s, 1, Len(s) - 1))
    ELSE s

\* the bytes of the inputs in ascending byte value
ByteOrder ==
    <<" ", "*", ",", "-", ".", "/", "0", "1", "2", "3", "4", "5", "6", "7", "8", "9",
      "<", "=", ">", "?", "^", "a", "b", "c", "d", "e", "f", "g", "h", "i", "k", "l",
      "m", "n", "o", "p", "r", "s", "t", "u", "v", "w", "x", "~">>

Ord(b) == CHOOSE i \in 1..Len(ByteOrder) : ByteOrder[i] = b

\* a < b on Go strings
RECURSIVE StrLess(_, _)
StrLess(a, b) ==
    IF b = <<>> THEN FALSE
    ELSE IF a = <<>> THEN TRUE
    ELSE IF Head(a) # Head(b) THEN Ord(Head(a)) < Ord(Head(b))
    ELSE StrLess(Tail(a), Tail(b))

\* strconv.Atoi on a string of digits (the inputs stay far below the int range)
RECURSIVE Atoi(_)
Atoi(s) ==
    IF s = <<>> THEN 0
    ELSE 10 * Atoi(SubSeq(s, 1, Len(s) - 1)) + DigitVal(s[Len(s)])

Version(major, minor, patch, pre) ==
    [ok |-> TRUE, Major |-> major, Minor |-> minor, Patch |-> patch, Pre |-> pre]

\* the error result of ParseVersion
NoVersion == [ok |-> FALSE, Major |-> 0, Minor |-> 0, Patch |-> 0, Pre |-> <<>>]

\* end offset of an optional group \.(\d+) at offset pos: pos itself when the
\* group does not match there
GroupEnd(t, pos) ==
    IF pos < Len(t) /\ t[pos + 1] = "." /\ RunLen(t, pos + 1, DigitBytes, -1) > 0
    THEN pos + 1 + RunLen(t, pos + 1, DigitBytes, -1)
    ELSE pos

\* the digits of the group that ends at offset to, 0 for a group that did
\* not match (from = to)
GroupValue(t, from, to) == IF to > from THEN Atoi(Slice(t, from + 1, to)) ELSE 0

\* the submatches of ^(\d+)(?:\.(\d+))?(?:\.(\d+))?(?:-(.+))?$ on t, the
\* groups ending at offsets n1, e2 and e3
VersionOfGroups(t, n1, e2, e3) ==
    IF n1 = 0 THEN NoVersion
    ELSE IF e3 = Len(t)
    THEN Version(Atoi(Slice(t, 0, n1)), GroupValue(t, n1, e2), GroupValue(t, e2, e3), <<>>)
    ELSE IF e3 + 1 < Len(t) /\ t[e3 + 1] = "-"
    THEN Version(Atoi(Slice(t, 0, n1)), GroupValue(t, n1, e2), GroupValue(t, e2, e3),
                 Slice(t, e3 + 1, Len(t)))
    ELSE NoVersion

VersionAfterMinor(t, n1, e2) == VersionOfGroups(t, n1, e2, GroupEnd(t, e2))
VersionAfterMajor(t, n1) == VersionAfterMinor(t, n1, GroupEnd(t, n1))
VersionOfTrimmed(t) == VersionAfterMajor(t, RunLen(t, 0, DigitBytes, -1))

\* ParseVersion
ParseVersion(s) == VersionOfTrimmed(TrimPrefix(s, <<"v">>))

\* Version.Compare
Compare(v, other) ==
    IF v.Major # other.Major THEN (IF v.Major < other.Major THEN -1 ELSE 1)
    ELSE IF v.Minor # other.Minor THEN (IF v.Minor < other.Minor THEN -1 ELSE 1)
    ELSE IF v.Patch # other.Patch THEN (IF v.Patch < other.Patch THEN -1 ELSE 1)
    ELSE IF v.Pre # <<>> /\ other.Pre = <<>> THEN -1
    ELSE IF v.Pre = <<>> /\ other.Pre # <<>> THEN 1
    ELSE IF StrLess(v.Pre, other.Pre) THEN -1
    ELSE IF StrLess(other.Pre, v.Pre) THEN 1
    ELSE 0

\* the operators ParseConstraint tries, in the order it tries them
ConstraintOps == <<<<">", "=">>, <<"<", "=">>, <<">">>, <<"<">>, <<"~">>, <<"^">>, <<"=">>>>

OpName(op) ==
    CASE op = <<">", "=">> -> ">=" [] op = <<"<", "=">> -> "<=" [] op = <<">">> -> ">" [] op = <<"<">> -> "<"
      [] op = <<"~">> -> "~" [] op = <<"^">> -> "^" [] OTHER -> "="

\* the first operator that prefixes s, or the empty string
RECURSIVE DetectOp(_, _)
DetectOp(s, i) ==
    IF i > Len(ConstraintOps) THEN <<>>
    ELSE IF HasPrefix(s, ConstraintOps[i]) THEN ConstraintOps[i]
    ELSE DetectOp(s, i + 1)

\* a Constraint: isNil for the nil pointer
NilConstraint == [isNil |-> TRUE, Op |-> "", Version |-> NoVersion]
Constraint(op, v) == [isNil |-> FALSE, Op |-> op, Version |-> v]

\* the results of ParseConstraint: [err, c]
ConstraintOfVersion(op, v) ==
    IF ~v.ok THEN [err |-> TRUE, c |-> NilConstraint]
    ELSE [err |-> FALSE, c |-> Constraint(OpName(op), v)]

ConstraintOfOp(t, op) == ConstraintOfVersion(op, ParseVersion(TrimSpace(TrimPrefix(t, op))))

ConstraintOfTrimmed(t) ==
    IF t = <<>> \/ t = <<"*">> THEN [err |-> FALSE, c |-> NilConstraint]
    ELSE ConstraintOfOp(t, DetectOp(t, 1))

\* ParseConstraint
ParseConstraint(s) == ConstraintOfTrimmed(TrimSpace(s))

\* the switch of Constraint.Matches on the result of the comparison
MatchesCmp(c, v, cmp) ==
    CASE c.Op = ">=" -> cmp >= 0
      [] c.Op = ">" -> cmp > 0
      [] c.Op = "<=" -> cmp <= 0
      [] c.Op = "<" -> cmp < 0
      [] c.Op = "=" -> cmp = 0
      [] c.Op = "~" -> cmp >= 0 /\ v.Major = c.Version.Major /\ v.Minor = c.Version.Minor
      [] c.Op = "^" -> /\ cmp >= 0
                       /\ IF c.Version.Major = 0
                          THEN v.Major = c.Version.Major /\ v.Minor = c.Version.Minor
                          ELSE v.Major = c.Version.Major
      [] OTHER -> cmp = 0

\* Constraint.Matches
ConstraintMatches(c, v) ==
    IF c.isNil THEN TRUE ELSE MatchesCmp(c, v, Compare(v, c.Version))

\* the non-empty parts of regexp.Split(s, -1) on [,\s]+
RECURSIVE Fields(_, _)
Fields(s, cur) ==
    IF s = <<>> THEN (IF cur = <<>> THEN <<>> ELSE <<cur>>)
    ELSE IF Head(s) \in SeparatorBytes
    THEN (IF cur = <<>> THEN <<>> ELSE <<cur>>) \o Fields(Tail(s), <<>>)
    ELSE Fields(Tail(s), Append(cur, Head(s)))

\* the loop of ParseConstraints over the parsed parts: a part that fails to
\* parse ends it with an error and no constraints; nil constraints are left out
ConstraintsOfParsed(rs) ==
    IF \E i \in 1..Len(rs) : rs[i].err THEN [err |-> TRUE, list |-> <<>>]
    ELSE [err |-> FALSE,
          list |-> [i \in 1..Len(SelectSeq(rs, LAMBDA r : ~r.c.isNil)) |->
                       SelectSeq(rs, LAMBDA r : ~r.c.isNil)[i].c]]

ConstraintsOfParts(parts) ==
    ConstraintsOfParsed([i \in 1..Len(parts) |-> ParseConstraint(parts[i])])

\* ParseConstraints: the constraint list is nil when list is empty
ParseConstraints(s) ==
    IF s = <<>> \/ s = <<"*">> THEN [err |-> FALSE, list |-> <<>>]
    ELSE ConstraintsOfParts(Fields(s, <<>>))

\* Constraints.Matches
ConstraintsMatch(cs, v) == \A i \in 1..Len(cs) : ConstraintMatches(cs[i], v)

MatchesVersion(cs, v) == v.ok /\ ConstraintsMatch(cs, v)

\* Constraints.MatchesString
MatchesString(cs, versionStr) == MatchesVersion(cs, ParseVersion(versionStr))

(***************************************************************************)
(* subscription.Manager                                                    *)
(***************************************************************************)

\* filepath.Match for patterns made of literal bytes, * and ? (no character
\* class or escape occurs in the inputs): * and ? do not match a slash
RECURSIVE GlobMatch(_, _)
GlobMatch(p, s) ==
    IF p = <<>> THEN s = <<>>
    ELSE IF Head(p) = "*"
    THEN \E k \in 0..Len(s) :
            /\ \A i \in 1..k : s[i] # "/"
            /\ GlobMatch(Tail(p), SubSeq(s, k + 1, Len(s)))
    ELSE IF Head(p) = "?"
    THEN s # <<>> /\ Head(s) # "/" /\ GlobMatch(Tail(p), Tail(s))
    ELSE s # <<>> /\ Head(s) = Head(p) /\ GlobMatch(Tail(p), Tail(s))

matchesCategory(patternCategory, subCategory) ==
    \/ subCategory = <<>> \/ subCategory = <<"*">>
    \/ patternCategory = subCategory
    \/ HasPrefix(patternCategory, subCategory \o Slash)

matchesPatternNames(patternName, globs) ==
    \/ Len(globs) = 0
    \/ \E i \in 1..Len(globs) :
          \/ globs[i] = <<"*">>
          \/ GlobMatch(globs[i], patternName)
          \/ globs[i] = patternName

\* a matchedPattern.  Pattern is a pointer: At is the place <<j, i>> of the
\* cached rule sets it points to (<<>> for a private copy), Pattern the value
\* it points to
matchedPattern(p, ruleSetName, at) ==
    [Pattern |-> p, RuleSetName |-> ruleSetName, Name |-> p.Name, At |-> at]

\* the checks of matchPatterns on a rule set, given the parsed constraints
RuleSetPasses(rs, constraints, maturitySet) ==
    /\ ~(Cardinality(maturitySet) > 0 /\ rs.Maturity \notin maturitySet)
    /\ ~(Len(constraints) > 0 /\ ~MatchesString(constraints, rs.Version))

\* the rule sets matchPatterns does not skip: the error of ParseConstraints is
\* dropped, and a nil constraint list filters nothing
RuleSetSelected(rs, sub, maturitySet) ==
    RuleSetPasses(rs, ParseConstraints(sub.Version).list, maturitySet)

PatternSelected(p, sub) ==
    /\ ~(sub.Category # <<>> /\ ~matchesCategory(p.Category, sub.Category))
    /\ matchesPatternNames(p.Name, sub.Patterns)

\* &rs.Patterns[i] for the indices idx of rule set j
matchedPatterns(rs, j, idx) ==
    [n \in 1..Len(idx) |-> matchedPattern(rs.Patterns[idx[n]], rs.Name, <<j, idx[n]>>)]

\* the inner loop of matchPatterns on rule set j
matchRuleSet(rs, j, sub, maturitySet) ==
    IF RuleSetSelected(rs, sub, maturitySet)
    THEN matchedPatterns(rs, j,
                         SelectSeq([i \in 1..Len(rs.Patterns) |-> i],
                                   LAMBDA i : PatternSelected(rs.Patterns[i], sub)))
    ELSE <<>>

\* matchPatterns: rule sets in order, their patterns in order
RECURSIVE matchPatternsFrom(_, _, _, _)
matchPatternsFrom(ruleSets, j, sub, maturitySet) ==
    IF j > Len(ruleSets) THEN <<>>
    ELSE matchRuleSet(ruleSets[j], j, sub, maturitySet)
         \o matchPatternsFrom(ruleSets, j + 1, sub, maturitySet)

matchPatterns(cachedSource, sub, maturitySet) ==
    matchPatternsFrom(cachedSource.RuleSets, 1, sub, maturitySet)

\* a Go pointer: nil or the address of a value
NilPtr == [isNil |-> TRUE]
Ptr(v) == [isNil |-> FALSE, value |-> v]

\* v1alpha1.PatternOverride
PatternOverride(pattern, severity, enabled, strategy) ==
    [Pattern |-> pattern, Severity |-> severity, Enabled |-> enabled,
     MaskingStrategy |-> strategy]

\* v1alpha1.CategorySubscription
CategorySubscription(category, version, globs) ==
    [Category |-> category, Version |-> version, Patterns |-> globs]

\* v1alpha1.PIIRuleSubscriptionSpec
SubscriptionSpec(namespace, name, maturityLevels, subscribe, overrides) ==
    [SourceRef |-> [Namespace |-> namespace, Name |-> name],
     MaturityLevels |-> maturityLevels, Subscribe |-> subscribe, Overrides |-> overrides]

OverrideSeverity(p, override) ==
    IF override.Severity # "" THEN [p EXCEPT !.Severity = override.Severity] ELSE p

OverrideEnabled(p, override) ==
    IF ~override.Enabled.isNil THEN [p EXCEPT !.Enabled = override.Enabled.value] ELSE p

OverrideStrategy(p, override) ==
    IF ~override.MaskingStrategy.isNil
    THEN [p EXCEPT !.MaskingStrategy = override.MaskingStrategy.value] ELSE p

\* an applyOverride that writes through mp.Pattern, without the copy
applyOverrideInPlace(mp, override) ==
    [mp EXCEPT !.Pattern =
        OverrideStrategy(OverrideEnabled(OverrideSeverity(mp.Pattern, override), override),
                         override)]

\* applyOverride: mp.Pattern is pointed at a copy of the definition
\* (patternCopy := *mp.Pattern; mp.Pattern = &patternCopy) and the copy is
\* modified
applyOverride(mp, override) ==
    [mp EXCEPT !.At = <<>>,
               !.Pattern =
        OverrideStrategy(OverrideEnabled(OverrideSeverity(mp.Pattern, override), override),
                         override)]

\* the override map of Subscribe: keyed by the Pattern field, a later
\* override replacing an earlier one with the same key
OverrideMap(overrides) ==
    [k \in {overrides[i].Pattern : i \in 1..Len(overrides)} |->
        overrides[Last({i \in 1..Len(overrides) : overrides[i].Pattern = k})]]

SourceKeyOf(ref) ==
    IF ref.Namespace = <<>> THEN ref.Name ELSE ref.Namespace \o Slash \o ref.Name

SubscribedPatternInfo(name, category, sourceKey, overridden) ==
    [Name |-> name, Category |-> category, Version |-> <<>>, Source |-> sourceKey,
     Overridden |-> overridden]

\* the patterns the outer loop of Subscribe processes from category
\* subscription j on, in order
RECURSIVE MatchedFrom(_, _, _, _)
MatchedFrom(cachedSource, subs, j, maturitySet) ==
    IF j > Len(subs) THEN <<>>
    ELSE matchPatterns(cachedSource, subs[j], maturitySet)
         \o MatchedFrom(cachedSource, subs, j + 1, maturitySet)

MaturitySet(levels) ==
    IF Len(levels) = 0 THEN {"stable", "incubating"} ELSE Range(levels)

\* one iteration of the inner loop of Subscribe, given the pattern after the
\* override and the outcome r of the AddPattern call: the key, the error, the
\* entry stored and the info appended on success
SubscribeStep(p, key, r, sourceKey, overridden) ==
    [key |-> key,
     err |-> r.err,
     entry |-> IF r.err THEN Absent ELSE r.patterns[key],
     name |-> p.Pattern.Name,
     at |-> p.At,
     pattern |-> p.Pattern,
     overridden |-> overridden,
     info |-> SubscribedPatternInfo(p.Pattern.Name, p.Pattern.Category, sourceKey, overridden)]

\* a Subscribe that registers only the keys the engine does not hold yet and
\* reports the others as failed
SubscribeAddOnce(pats, p, key, sourceKey, overridden) ==
    IF key \in DOMAIN pats
    THEN [key |-> key, err |-> TRUE, entry |-> Absent, name |-> p.Pattern.Name,
          at |-> p.At, pattern |-> p.Pattern, overridden |-> overridden,
          info |-> SubscribedPatternInfo(p.Pattern.Name, p.Pattern.Category, sourceKey,
                                         overridden)]
    ELSE SubscribeStep(p, key, AddPatternResult(pats, key, ToPatternSpec(p.Pattern)),
                       sourceKey, overridden)

SubscribeAdd(pats, p, key, sourceKey, overridden) ==
    SubscribeStep(p, key, AddPatternResult(pats, key, ToPatternSpec(p.Pattern)),
                  sourceKey, overridden)

SubscribePattern(pats, p, sourceKey, overridden) ==
    SubscribeAdd(pats, p, sourceKey \o Slash \o p.RuleSetName \o Slash \o p.Pattern.Name,
                 sourceKey, overridden)

SubscribeOne(pats, mp, overrides, sourceKey) ==
    IF mp.Name \in DOMAIN overrides
    THEN SubscribePattern(pats, applyOverride(mp, overrides[mp.Name]), sourceKey, TRUE)
    ELSE SubscribePattern(pats, mp, sourceKey, FALSE)

\* the iterations of the loops of Subscribe, in order
SubscribeSteps(pats, matched, overrides, sourceKey) ==
    [i \in 1..Len(matched) |-> SubscribeOne(pats, matched[i], overrides, sourceKey)]

\* the writes of applyOverride that went through a pointer into the cached
\* rule sets: place <<j, i>> |-> the definition after the last such write
WrittenThrough(steps) ==
    [at \in {steps[n].at : n \in {m \in 1..Len(steps) :
                                    steps[m].overridden /\ steps[m].at # <<>>}} |->
        steps[Last({n \in 1..Len(steps) : steps[n].overridden /\ steps[n].at = at})].pattern]

\* the cached source after those writes
WriteThrough(cachedSource, written) ==
    [cachedSource EXCEPT !.RuleSets =
        [j \in 1..Len(@) |->
            [@[j] EXCEPT !.Patterns =
                [i \in 1..Len(@) |-> IF <<j, i>> \in DOMAIN written THEN written[<<j, i>>]
                                      ELSE @[i]]]]]

\* the catalog and the result after the iterations: each key holds what the
\* last successful AddPattern under it stored; Registered is bookkeeping for
\* the analysis, the keys AddPattern accepted
SubscribeOutcome(pats, steps, added, failed) ==
    [Written |-> WrittenThrough(steps),
     patterns |->
         [k \in {added[i].key : i \in 1..Len(added)} |->
             added[Last({i \in 1..Len(added) : added[i].key = k})].entry] @@ pats,
     SubscribedPatterns |-> [i \in 1..Len(added) |-> added[i].info],
     Errors |-> [i \in 1..Len(failed) |-> <<"failed to add pattern: ", failed[i].name>>],
     Registered |-> {added[i].key : i \in 1..Len(added)}]

SubscribeOutcomeOf(pats, steps) ==
    SubscribeOutcome(pats, steps, SelectSeq(steps, LAMBDA st : ~st.err),
                     SelectSeq(steps, LAMBDA st : st.err))

SubscribeFrom(pats, cachedSource, sourceKey, spec) ==
    SubscribeOutcomeOf(pats,
        SubscribeSteps(pats,
                       MatchedFrom(cachedSource, spec.Subscribe, 1,
                                   MaturitySet(spec.MaturityLevels)),
                       OverrideMap(spec.Overrides), sourceKey))

SubscribeAt(pats, srcs, sourceKey, spec) ==
    IF sourceKey \notin DOMAIN srcs
    THEN [Written |-> <<>>, patterns |-> pats, SubscribedPatterns |-> <<>>,
          Errors |-> <<<<"source not found: ", sourceKey>>>>, Registered |-> {}]
    ELSE SubscribeFrom(pats, srcs[sourceKey], sourceKey, spec)

\* Subscribe as a function of the catalog and the cache
SubscribeResult(pats, srcs, spec) == SubscribeAt(pats, srcs, SourceKeyOf(spec.SourceRef), spec)

\* the subscriptions the reconciler submits
OverrideAccess == PatternOverride(NameAwsAccess, "critical", Ptr(FALSE), NilPtr)
OverrideKoreaPhone ==
    PatternOverride(<<"k", "o", "r", "e", "a", "/", "p", "h", "o", "n", "e">>, "critical", Ptr(TRUE),
                    Ptr(Strategy("full", 0, 0, <<>>, <<"X">>)))

SubAwsGlob ==
    SubscriptionSpec(SourceNamespace, SourceName, <<>>,
                     <<CategorySubscription(CatSecrets, <<>>, <<<<"a", "w", "s", "-", "*">>, NameBroken>>)>>,
                     <<OverrideAccess>>)
SubKorea ==
    SubscriptionSpec(SourceNamespace, SourceName, <<>>,
                     <<CategorySubscription(CatKorea, <<">", "=", "0", ".", "5", ".", "0">>, <<>>)>>,
                     <<OverrideKoreaPhone>>)
SubSandbox ==
    SubscriptionSpec(SourceNamespace, SourceName, <<"sandbox", "incubating">>,
                     <<CategorySubscription(<<"*">>, <<"~", "1", ".", "2">>, <<NamePhone, <<"c", "?", "l", "l">>>>)>>,
                     <<>>)
SubRange ==
    SubscriptionSpec(SourceNamespace, SourceName, <<>>,
                     <<CategorySubscription(<<>>, <<">", "=", "1", ".", "0", ".", "0", ",", " ", "<", "2", ".", "0", ".", "0">>, <<<<"*">>>>)>>,
                     <<>>)
SubMixed ==
    SubscriptionSpec(SourceNamespace, SourceName, <<>>,
                     <<CategorySubscription(CatKorea, <<">", "=", "1", ".", "0", ".", "0", ",", "<", "2", ".", "x">>, <<>>)>>,
                     <<>>)
SubTwo ==
    SubscriptionSpec(SourceNamespace, SourceName, <<>>,
                     <<CategorySubscription(CatKorea, <<"^", "0", ".", "5", ".", "0">>, <<<<"*", "x">>, NameCell>>),
                       CategorySubscription(CatKoreaMobile, <<"*">>, <<>>)>>,
                     <<>>)
SubMissing ==
    SubscriptionSpec(<<>>, SourceT, <<>>,
                     <<CategorySubscription(<<>>, <<>>, <<>>)>>, <<>>)

Subscriptions == {SubAwsGlob, SubKorea, SubSandbox, SubRange, SubMixed, SubTwo, SubMissing}

(***************************************************************************)
(* Manager operations.  The reconciler runs them one at a time, and no     *)
(* detection is in flight in the specification that uses them.             *)
(***************************************************************************)

\* Manager.Subscribe: its effect on the engine, the result and the cache
ManagerSubscribe(spec) ==
    LET r == SubscribeResult(patterns, sources, spec)
    IN /\ CanLock(mu)
       /\ patterns' = r.patterns
       /\ subResult' = [SubscribedPatterns |-> r.SubscribedPatterns,
                        TotalPatterns |-> Len(r.SubscribedPatterns),
                        Errors |-> r.Errors,
                        Registered |-> r.Registered]
       /\ sources' = IF r.Written = <<>> THEN sources
                     ELSE [sources EXCEPT ![SourceKeyOf(spec.SourceRef)] =
                              WriteThrough(@, r.Written)]
       /\ call' = NoteCatalog(call, patterns')
       /\ UNCHANGED <<validationEnabled, mu, toggle, addErr, cachePatterns, unsubscribed, observed, semver>>

\* Subscribe called on its own, outside a reconciliation that consults the
\* updater
Subscribe(spec) == ManagerSubscribe(spec) /\ UNCHANGED updater

Unsubscribe(sourceKey) ==
    /\ CanLock(mu)
    /\ patterns' = [k \in DOMAIN patterns \ ListPatternsForSource(cachePatterns, sourceKey)
                       |-> patterns[k]]
    /\ unsubscribed' = sourceKey
    /\ call' = NoteCatalog(call, patterns')
    /\ UNCHANGED <<validationEnabled, mu, toggle, addErr, sources, cachePatterns, subResult, observed, updater, semver>>

NextSupply ==
    \/ \E name \in SourceKeys, ruleSets \in RuleSetLists : SetSource(name, ruleSets)
    \/ \E name \in SourceKeys, err \in SourceErrors : SetSourceError(name, err)
    \/ \E name \in SourceKeys : RemoveSource(name)
    \/ Clear
    \/ \E spec \in Subscriptions : Subscribe(spec)
    \/ \E sourceKey \in SourceKeys : Unsubscribe(sourceKey)

SpecSupply == Init /\ [][NextSupply]_vars

(***************************************************************************)
(* Properties of the cache and the subscription manager                    *)
(***************************************************************************)

\* the source/ruleset/pattern triples of the rule sets the cache stores
StoredKeys ==
    UNION {RuleSetKeys(name, sources[name].RuleSets) : name \in DOMAIN sources}

\* C3: the keys of the per-pattern index are exactly the
\* source/ruleset/pattern triples of the rule sets currently stored.
C3_IndexConsistent == DOMAIN cachePatterns = StoredKeys

\* a version satisfies a constraint list when it satisfies every part of the
\* list that is a constraint (a part that is not one demands nothing)
VersionSatisfies(versionStr, constraintStr) ==
    LET parts == Fields(constraintStr, <<>>)
    IN \A i \in 1..Len(parts) :
          LET r == ParseConstraint(parts[i])
          IN (~r.err /\ ~r.c.isNil) => MatchesString(<<r.c>>, versionStr)

\* the keys C8 names: maturity in the filter, version satisfying the
\* constraint, category equal to or below the subscribed one, name matching a
\* glob; a pattern whose regexes do not compile is reported in Errors instead
SelectedKeys(cachedSource, sourceKey, spec) ==
    {patternKey(sourceKey, cachedSource.RuleSets[j].Name, cachedSource.RuleSets[j].Patterns[i].Name) :
        <<j, i>> \in {<<j, i>> \in (1..Len(cachedSource.RuleSets)) \X (1..cachedSource.TotalPatterns) :
            /\ i <= Len(cachedSource.RuleSets[j].Patterns)
            /\ LET rs == cachedSource.RuleSets[j]
                   p == rs.Patterns[i]
               IN /\ ~CompileFails(ToPatternSpec(p))
                  /\ \E k \in 1..Len(spec.Subscribe) :
                        LET sub == spec.Subscribe[k]
                        IN /\ rs.Maturity \in MaturitySet(spec.MaturityLevels)
                           /\ VersionSatisfies(rs.Version, sub.Version)
                           /\ matchesCategory(p.Category, sub.Category)
                           /\ matchesPatternNames(p.Name, sub.Patterns)}}

\* C8: Subscribe registers exactly the keys source/ruleset/pattern that pass
\* the maturity, version, category and name filters of some category
\* subscription.
C8_SubscribeSelects ==
    [][\A spec \in Subscriptions :
          (Subscribe(spec) /\ SourceKeyOf(spec.SourceRef) \in DOMAIN sources) =>
              subResult'.Registered =
                  SelectedKeys(sources[SourceKeyOf(spec.SourceRef)],
                               SourceKeyOf(spec.SourceRef), spec)]_vars

\* C9: an override whose pattern id is category/name is applied to the
\* pattern of that category and name: the registered pattern carries the
\* override's severity, enabled flag and masking strategy, and the result
\* records it as overridden.
C9_OverrideByCategoryName ==
    [][\A spec \in Subscriptions :
          (Subscribe(spec) /\ SourceKeyOf(spec.SourceRef) \in DOMAIN sources) =>
              LET sourceKey == SourceKeyOf(spec.SourceRef)
                  ruleSets == sources[sourceKey].RuleSets
              IN \A o \in Range(spec.Overrides), j \in 1..Len(ruleSets) :
                    \A p \in Range(ruleSets[j].Patterns) :
                       LET key == patternKey(sourceKey, ruleSets[j].Name, p.Name)
                       IN (o.Pattern = p.Category \o Slash \o p.Name
                           /\ key \in subResult'.Registered) =>
                              /\ o.Severity # "" => patterns'[key].Severity = o.Severity
                              /\ ~o.Enabled.isNil => patterns'[key].Enabled = o.Enabled.value
                              /\ ~o.MaskingStrategy.isNil =>
                                    patterns'[key].MaskingStrategy = o.MaskingStrategy.value
                              /\ \E info \in Range(subResult'.SubscribedPatterns) :
                                    info.Name = p.Name /\ info.Overridden]_vars

\* C10: after Unsubscribe(sourceKey) the engine holds no key that begins with
\* the source key.
C10_UnsubscribeRemovesAll ==
    [][\A sourceKey \in SourceKeys :
          Unsubscribe(sourceKey) =>
              \A k \in DOMAIN patterns' : ~HasPrefix(k, sourceKey \o Slash)]_vars

\* C11: a second Subscribe with the same subscription, directly after the
\* first and with the cache unchanged, leaves the engine catalog (keys and
\* compiled entries) as the first run left it and returns the same list of
\* subscribed patterns.
C11_SubscribeIdempotent ==
    [][\A spec \in Subscriptions :
          Subscribe(spec) =>
              /\ SubscribeResult(patterns', sources', spec).patterns = patterns'
              /\ SubscribeResult(patterns', sources', spec).SubscribedPatterns =
                     subResult'.SubscribedPatterns]_vars

\* a Subscribe has registered patterns, one of them overridden, and the same
\* subscription run again on this state returns what the first run returned
C11_Witness ==
    /\ subResult.Registered # {}
    /\ \E info \in Range(subResult.SubscribedPatterns) : info.Overridden
    /\ \E spec \in Subscriptions :
          /\ SubscribeResult(patterns, sources, spec).SubscribedPatterns =
                 subResult.SubscribedPatterns
          /\ SubscribeResult(patterns, sources, spec).patterns = patterns

\* C12: a Subscribe or an Unsubscribe step leaves the Source Cache as it
\* was: the stored rule sets with every pattern definition, and the index.
C12_CacheUntouched ==
    [][((\E spec \in Subscriptions : Subscribe(spec))
        \/ (\E sourceKey \in SourceKeys : Unsubscribe(sourceKey))) =>
            (sources' = sources /\ cachePatterns' = cachePatterns)]_vars

\* a Subscribe has applied an override: the engine entry carries the
\* override's severity while the cached definition keeps its own
C12_Witness ==
    /\ \E info \in Range(subResult.SubscribedPatterns) : info.Overridden
    /\ \E key \in subResult.Registered \cap DOMAIN patterns \cap DOMAIN cachePatterns :
          /\ patterns[key].Severity = OverrideAccess.Severity
          /\ cachePatterns[key].Pattern.Severity # OverrideAccess.Severity
          /\ SourceNS \in DOMAIN sources
          /\ \E j \in 1..Len(sources[SourceNS].RuleSets) :
                \E p \in Range(sources[SourceNS].RuleSets[j].Patterns) :
                   p.Name = NameAwsAccess /\ p.Severity # OverrideAccess.Severity

(***************************************************************************)
(* redactor package                                                        *)
(***************************************************************************)

HexBytes == <<"0", "1", "2", "3", "4", "5", "6", "7", "8", "9", "a", "b", "c", "d", "e", "f">>

HashBytes == 8
TokenBytes == 4

RECURSIVE SumOrd(_)
SumOrd(text) == IF text = <<>> THEN 0 ELSE Ord(Head(text)) + SumOrd(Tail(text))

\* hex.EncodeToString(hash[:n]) of the SHA-256 digest of text.  The digest is
\* represented by a checksum of the bytes: what the redactor relies on is that
\* the output is 2n hexadecimal digits determined by the text.
HexDigest(text, n) ==
    [k \in 1..(2 * n) |-> HexBytes[((SumOrd(text) + 7 * Len(text) + 3 * k * k) % 16) + 1]]

hashText(text) ==
    <<"[", "H", "A", "S", "H", ":">> \o HexDigest(text, HashBytes) \o <<"]">>

tokenize(text) ==
    <<"[", "T", "O", "K", "E", "N", ":">> \o HexDigest(text, TokenBytes) \o <<"]">>

getMaskChar(strategy) == IF strategy.MaskChar # <<>> THEN strategy.MaskChar ELSE <<"*">>

\* applyPartialMasking: lengths and the shown parts are counted in runes
applyPartialMasking(text, strategy) ==
    LET runes == Runes(text)
        length == Len(runes)
        showFirst == strategy.ShowFirst
        showLast == strategy.ShowLast
        maskChar == getMaskChar(strategy)
    IN IF showFirst + showLast >= length THEN Repeat(maskChar, length)
       ELSE (IF showFirst > 0 THEN StringOfRunes(SubSeq(runes, 1, showFirst)) ELSE <<>>)
            \o Repeat(maskChar, length - showFirst - showLast)
            \o (IF showLast > 0 THEN StringOfRunes(SubSeq(runes, length - showLast + 1, length))
                ELSE <<>>)

ApplyMasking(text, strategy) ==
    CASE strategy.Type = "full" ->
             IF strategy.Replacement # <<>> THEN strategy.Replacement
             ELSE Repeat(getMaskChar(strategy), Len(text))
      [] strategy.Type = "partial" -> applyPartialMasking(text, strategy)
      [] strategy.Type = "hash" -> hashText(text)
      [] strategy.Type = "tokenize" -> tokenize(text)
      [] OTHER -> applyPartialMasking(text, strategy)

\* Engine.GetMaskingStrategy
GetMaskingStrategy(pats, patternName) ==
    IF patternName \in DOMAIN pats
    THEN [strategy |-> pats[patternName].MaskingStrategy, ok |-> TRUE]
    ELSE [strategy |-> ZeroStrategy, ok |-> FALSE]

\* the orders sort.Slice can leave the detections in: descending start, the
\* detections with equal start in any order (the sort is not stable).
\* remaining is the set of indices not placed yet.
RECURSIVE OrdersOf(_, _)
OrdersOf(results, remaining) ==
    IF remaining = {} THEN {<<>>}
    ELSE LET top == {i \in remaining : \A j \in remaining :
                        ~(results[j].Position.Start > results[i].Position.Start)}
         IN UNION {{<<results[i]>> \o rest : rest \in OrdersOf(results, remaining \ {i})} :
                      i \in top}

SortedOrders(results) == OrdersOf(results, 1..Len(results))

\* Redact / RedactWithPatterns after the detection: no detection, the text
\* is returned as it is
RedactEmpty ==
    /\ call.pc = "sort"
    /\ Len(call.results) = 0
    /\ call' = [call EXCEPT !.pc = "done", !.redacted = call.text]
    /\ UNCHANGED <<patterns, validationEnabled, mu, toggle, addErr, supplyVars, observed, updater, semver>>

RedactSort ==
    /\ call.pc = "sort"
    /\ Len(call.results) > 0
    /\ \E sorted \in SortedOrders(call.results) :
          call' = [call EXCEPT !.pc = "mask", !.results = sorted,
                               !.redacted = call.text, !.i = 0]
    /\ UNCHANGED <<patterns, validationEnabled, mu, toggle, addErr, supplyVars, observed, updater, semver>>

\* one iteration of the masking loop; a slice bound beyond the working text
\* is a run-time panic
RedactMask ==
    /\ call.pc = "mask"
    /\ call.i < Len(call.results)
    /\ CanRLock(mu)
    /\ LET d == call.results[call.i + 1]
           g == GetMaskingStrategy(patterns, d.PatternName)
           masked == ApplyMasking(d.MatchedText, g.strategy)
           last == call.i + 1 = Len(call.results)
       IN IF ~g.ok
          THEN call' = [call EXCEPT !.i = @ + 1, !.pc = IF last THEN "done" ELSE "mask"]
          ELSE IF d.Position.End > Len(call.redacted)
          THEN call' = [call EXCEPT !.pc = "panic", !.results[call.i + 1].RedactedText = masked]
          ELSE call' = [call EXCEPT
                          !.i = @ + 1,
                          !.pc = IF last THEN "done" ELSE "mask",
                          !.results[call.i + 1].RedactedText = masked,
                          !.redacted = Slice(@, 0, d.Position.Start) \o masked
                                       \o Slice(@, d.Position.End, Len(@))]
    /\ UNCHANGED <<patterns, validationEnabled, mu, toggle, addErr, supplyVars, observed, updater, semver>>

\* the call has produced its RedactResult: call.redacted and call.results
RedactReady == call.pc = "done"

\* the call returns, or unwinds after a panic
RedactReturn ==
    /\ call.pc \in {"done", "panic"}
    /\ call' = IdleCall
    /\ UNCHANGED <<patterns, validationEnabled, mu, toggle, addErr, supplyVars, observed, updater, semver>>

\* The embedding layer registers and enables patterns between redactions and
\* may remove one at any moment, also between two iterations of the masking
\* loop.
\* specs whose rules match U+00E9, and texts that hold it
SpecAccent ==
    PatternSpec("Accent", <<"c">>, <<Rule("\\x{e9}a?", "high")>>,
                "", Strategy("full", 0, 0, <<>>, <<>>), "low", TRUE)
SpecAccents ==
    PatternSpec("Accents", <<"c">>, <<Rule("\\x{e9}", "high"), Rule("\\x{e9}a?", "low")>>,
                "", Strategy("partial", 0, 0, <<"*">>, <<>>), "low", TRUE)

RedactSpecPool == SpecPool \cup {SpecAccent, SpecAccents}

TextAccent == <<"C3", "A9">>
TextAccentA == <<"C3", "A9", "a">>

RedactTexts == Texts \cup {TextAccent, TextAccentA}

NextRedact ==
    \/ call.pc = "idle" /\ \E name \in CustomKeys, spec \in RedactSpecPool : AddPattern(name, spec)
    \/ call.pc = "idle" /\ \E name \in CustomKeys : EnablePattern(name)
    \/ \E name \in CustomKeys : RemovePattern(name)
    \/ \E text \in RedactTexts : DetectBegin(text, TRUE)
    \/ \E k \in EngineKeys : DetectScan(k)
    \/ \E text \in RedactTexts, names \in NameLists : DetectWithPatternsBegin(text, names, TRUE)
    \/ DetectWithPatternsScan
    \/ DetectReturn
    \/ RedactEmpty
    \/ RedactSort
    \/ RedactMask
    \/ RedactReturn

SpecRedact == Init /\ [][NextRedact]_vars

(***************************************************************************)
(* Properties of the redactor                                              *)
(***************************************************************************)

\* the bytes of text outside every detection range, in order
OutsideBytes(text, results) ==
    LET outside(i) == \A j \in 1..Len(results) :
                          ~(results[j].Position.Start < i /\ i <= results[j].Position.End)
        RECURSIVE From(_)
        From(i) == IF i > Len(text) THEN <<>>
                   ELSE (IF outside(i) THEN <<text[i]>> ELSE <<>>) \o From(i + 1)
    IN From(1)

\* a is a subsequence of b
RECURSIVE IsSubseq(_, _)
IsSubseq(a, b) ==
    IF a = <<>> THEN TRUE
    ELSE IF b = <<>> THEN FALSE
    ELSE IF Head(a) = Head(b) THEN IsSubseq(Tail(a), Tail(b))
    ELSE IsSubseq(a, Tail(b))

\* C4: every byte of the input outside the union of the reported detection
\* ranges appears unchanged and in the same order in the redacted text.
C4_OutsideBytesKept ==
    RedactReady => IsSubseq(OutsideBytes(call.text, call.results), call.redacted)

\* C15: the detections redact returns are ordered by descending start, and
\* detections with equal start by descending end.
C15_DetectionsOrdered ==
    RedactReady =>
        \A i, j \in 1..Len(call.results) :
           i < j =>
              \/ call.results[i].Position.Start > call.results[j].Position.Start
              \/ /\ call.results[i].Position.Start = call.results[j].Position.Start
                 /\ call.results[i].Position.End >= call.results[j].Position.End

\* C16: with strategy full and no replacement string the mask has as many
\* mask characters as the matched text has code points.
C16_FullMaskCodePoints ==
    call.pc \in {"mask", "done"} =>
        \A n \in 1..call.i :
           LET d == call.results[n]
               g == GetMaskingStrategy(patterns, d.PatternName)
           IN (g.ok /\ g.strategy.Type = "full" /\ g.strategy.Replacement = <<>>) =>
                 d.RedactedText = Repeat(getMaskChar(g.strategy), RuneCount(d.MatchedText))

\* every detection of the call is masked with a strategy that is partial,
\* shows nothing and has a mask character of one code point
AllPartialHidden ==
    \A d \in Range(call.results) :
       LET g == GetMaskingStrategy(patterns, d.PatternName)
       IN /\ g.ok
          /\ g.strategy.Type = "partial"
          /\ g.strategy.ShowFirst + g.strategy.ShowLast = 0
          /\ RuneCount(getMaskChar(g.strategy)) = 1

\* C17: when every masking strategy in use is partial with
\* show_first + show_last = 0 and a mask character of one code point, redact
\* produces an output, and it has as many code points as the input text.
C17_CodePointsKept ==
    (call.pc \in {"done", "panic"} /\ AllPartialHidden) =>
        (RedactReady /\ RuneCount(call.redacted) = RuneCount(call.text))

\* the replacement the masking loop is about to make, or has failed to make,
\* stays inside the working text
StepInBounds ==
    LET d == call.results[call.i + 1]
    IN GetMaskingStrategy(patterns, d.PatternName).ok =>
          /\ 0 <= d.Position.Start
          /\ d.Position.Start <= d.Position.End
          /\ d.Position.End <= Len(call.redacted)

\* C28: at every replacement step of redact 0 <= start <= end <= length of
\* the working text, whatever the detections are, and redact returns a
\* result instead of failing.
C28_ReplacementInBounds ==
    /\ call.pc # "panic"
    /\ (call.pc = "mask" /\ call.i < Len(call.results)) => StepInBounds

\* C29: every detection that the masking loop of redact has processed is
\* masked with the strategy its pattern had in the catalog state the
\* detection was made from, also when the pattern is removed or replaced
\* while redact is running.
C29_MaskedAsDetected ==
    call.pc \in {"mask", "done"} =>
        \A n \in 1..call.i :
           LET d == call.results[n]
           IN d.RedactedText = ApplyMasking(d.MatchedText, call.seen[d.PatternName].MaskingStrategy)

(***************************************************************************)
(* Detection calls with a context that may be cancelled, next to catalog   *)
(* mutations                                                               *)
(***************************************************************************)

\* a spec without rules
SpecEmpty ==
    PatternSpec("Empty", <<"c">>, <<>>, "", Strategy("full", 0, 0, <<>>, <<>>), "low", TRUE)

ScanSpecPool == {SpecAB, SpecEmpty, SpecBad}

ScanTexts == {<<>>, <<"a", "b">>, TextNineDigits}

NextScan ==
    \/ \E name \in CustomKeys, spec \in ScanSpecPool : AddPattern(name, spec)
    \/ \E name \in EngineKeys : EnablePattern(name)
    \/ \E name \in EngineKeys : DisablePattern(name)
    \/ \E category \in ToggleCategories, enable \in BOOLEAN : ToggleBegin(category, enable)
    \/ \E k \in EngineKeys : ToggleStep(k)
    \/ ToggleEnd
    \/ Cancel
    \/ \E text \in ScanTexts : DetectBegin(text, FALSE)
    \/ \E k \in EngineKeys : DetectScan(k)
    \/ \E text \in ScanTexts, names \in NameLists : DetectWithPatternsBegin(text, names, FALSE)
    \/ DetectWithPatternsScan
    \/ DetectReturn

SpecScan == Init /\ [][NextScan]_vars

\* the patterns the call has scanned: the enabled entries DetectInText
\* reached, the names DetectWithPatterns found in the catalog
ScannedKeys(c) ==
    {k \in DOMAIN c.seen :
        IF c.op = "DetectInText" THEN c.seen[k].Enabled ELSE c.seen[k] # Absent}

ResultsOf(c, k) == SelectSeq(c.results, LAMBDA d : d.PatternName = k)

\* C13: once the context is cancelled the call scans no further pattern; a
\* call that ends with the cancelled error returns exactly the detections of
\* the patterns it scanned; a call that began with a cancelled context has
\* scanned nothing and returns the cancelled error.
C13_CancelledCall ==
    /\ [](ResultReady =>
            /\ call.atStart =>
                  (call.err = "cancelled" /\ ScannedKeys(call) = {} /\ call.results = <<>>)
            /\ call.err = "cancelled" =>
                  /\ \A d \in Range(call.results) : d.PatternName \in ScannedKeys(call)
                  /\ \A k \in ScannedKeys(call) :
                        ResultsOf(call, k) =
                            PatternDetections(call.seen[k], call.text, validationEnabled))
    /\ [][(call.pc = "scan" /\ call.ctx = "cancelled" /\ call'.pc = "scan") =>
              ScannedKeys(call') = ScannedKeys(call)]_vars

\* what DetectInText returns for catalog c: the detections of its enabled
\* entries
DetectResults(c, text, validation) ==
    DetectionsOf(c, {k \in DOMAIN c : c[k].Enabled}, text, validation)

\* C18: DetectWithPatterns(text, names) returns exactly the detections of
\* DetectInText(text) on the same catalog whose pattern key is among the
\* names; a name that is not in the catalog adds nothing and is no error.
C18_NamedSubsetOfDetect ==
    (ResultReady /\ call.op = "DetectWithPatterns" /\ ~call.atStart /\ call.ctx = "live") =>
        /\ call.err = "nil"
        /\ Range(call.results) =
              {d \in DetectResults(patterns, call.text, validationEnabled) :
                  d.PatternName \in DOMAIN call.seen}

\* the patterns whose enabled flag the running by-category call has changed
ToggleChanged ==
    {k \in DOMAIN patterns : patterns[k].Enabled # toggle.before[k].Enabled}

\* C19: EnablePatternsByCategory and DisablePatternsByCategory return the
\* number of patterns whose enabled flag the call changed; a pattern of the
\* category that was already in the target state is not counted.
C19_ToggleCountsChanged ==
    ToggleReady => toggle.count = Cardinality(ToggleChanged)

\* C20: AddPattern with a spec whose rule list is empty returns an error and
\* leaves the catalog as it was, so every catalog entry has at least one
\* compiled rule.
C20_EmptyRulesRejected ==
    /\ [](\A k \in DOMAIN patterns : Len(patterns[k].Patterns) >= 1)
    /\ [][\A name \in CustomKeys, spec \in ScanSpecPool :
             (AddPattern(name, spec) /\ spec.Patterns = <<>>) =>
                 (addErr' = "error" /\ patterns' = patterns)]_vars

(***************************************************************************)
(* Repeated detection: the catalog is set up, then DetectInText is called  *)
(* again and again and nothing mutates the catalog between the calls       *)
(***************************************************************************)

InitRepeat ==
    /\ InitEngine /\ InitSupply /\ observed = NotObserved(TRUE) /\ updater = NewUpdater
    /\ semver = NoMatching

NextRepeat ==
    \/ ~observed.valid /\ call.pc = "idle" /\ \E name \in EngineKeys : EnablePattern(name)
    \/ \E text \in Texts : DetectBegin(text, FALSE)
    \/ \E k \in EngineKeys : DetectScan(k)
    \/ DetectReturn

SpecRepeat == InitRepeat /\ [][NextRepeat]_vars

\* C14: a DetectInText call on the text of the previous call, with the
\* catalog untouched since that call, returns the list the previous call
\* returned: the same detections in the same order.
C14_RepeatableDetect ==
    [][(/\ DetectReturn
        /\ call.op = "DetectInText" /\ call.err = "nil"
        /\ observed.valid
        /\ call.text = observed.text
        /\ patterns = observed.catalog
        /\ validationEnabled = observed.validation) =>
            call.results = observed.results]_vars

(***************************************************************************)
(* subscription package: the updater                                       *)
(***************************************************************************)

\* piiv1alpha1.PendingUpdate
PendingUpdate(pattern, current, available, changeType, description) ==
    [Pattern |-> pattern, CurrentVersion |-> current, AvailableVersion |-> available,
     ChangeType |-> changeType, Description |-> description]

\* piiv1alpha1.UpdatePolicy
UpdatePolicy(automatic, requireApproval, notifyOn) ==
    [Automatic |-> automatic, RequireApproval |-> requireApproval, NotifyOn |-> notifyOn]

\* Updater.determineChangeType, on the two parsed versions
ChangeTypeOf(currentVer, availableVer) ==
    IF ~currentVer.ok \/ ~availableVer.ok THEN "unknown"
    ELSE IF availableVer.Major > currentVer.Major THEN "majorVersion"
    ELSE IF availableVer.Minor > currentVer.Minor THEN "minorVersion"
    ELSE IF availableVer.Patch > currentVer.Patch THEN "patchVersion"
    ELSE "unknown"

determineChangeType(current, available) ==
    ChangeTypeOf(ParseVersion(current), ParseVersion(available))

\* Updater.patternMatchesSubscription
patternMatchesSubscription(pattern, spec) ==
    \E k \in 1..Len(spec.Subscribe) :
       /\ (spec.Subscribe[k].Category # <<>> /\ spec.Subscribe[k].Category # <<"*">>) =>
              pattern.Category = spec.Subscribe[k].Category
       /\ Len(spec.Subscribe[k].Patterns) > 0 =>
              \E n \in 1..Len(spec.Subscribe[k].Patterns) :
                 \/ spec.Subscribe[k].Patterns[n] = <<"*">>
                 \/ spec.Subscribe[k].Patterns[n] = pattern.Name

\* the first loop of CheckUpdates for one recorded pattern, from rule set j
\* on: one update per rule set that holds the name at another version
RECURSIVE VersionUpdates(_, _, _)
VersionUpdates(info, ruleSets, j) ==
    IF j > Len(ruleSets) THEN <<>>
    ELSE (IF /\ \E i \in 1..Len(ruleSets[j].Patterns) : ruleSets[j].Patterns[i].Name = info.Name
             /\ ruleSets[j].Version # info.Version
             /\ info.Version # <<>>
          THEN <<PendingUpdate(info.Name, info.Version, ruleSets[j].Version,
                               determineChangeType(info.Version, ruleSets[j].Version),
                               "Version update available")>>
          ELSE <<>>)
         \o VersionUpdates(info, ruleSets, j + 1)

RECURSIVE AllVersionUpdates(_, _, _)
AllVersionUpdates(list, ruleSets, n) ==
    IF n > Len(list) THEN <<>>
    ELSE VersionUpdates(list[n], ruleSets, 1) \o AllVersionUpdates(list, ruleSets, n + 1)

\* the second loop of CheckUpdates for pattern i of rule set rs
NewPatternUpdate(rs, i, list, spec) ==
    IF /\ \A n \in 1..Len(list) : list[n].Name # rs.Patterns[i].Name
       /\ patternMatchesSubscription(rs.Patterns[i], spec)
    THEN <<PendingUpdate(rs.Patterns[i].Name, <<>>, rs.Version, "newPatterns",
                         "New pattern available")>>
    ELSE <<>>

RECURSIVE NewPatternUpdatesOf(_, _, _, _)
NewPatternUpdatesOf(rs, i, list, spec) ==
    IF i > Len(rs.Patterns) THEN <<>>
    ELSE NewPatternUpdate(rs, i, list, spec) \o NewPatternUpdatesOf(rs, i + 1, list, spec)

RECURSIVE NewPatternUpdates(_, _, _, _)
NewPatternUpdates(ruleSets, j, list, spec) ==
    IF j > Len(ruleSets) THEN <<>>
    ELSE NewPatternUpdatesOf(ruleSets[j], 1, list, spec)
         \o NewPatternUpdates(ruleSets, j + 1, list, spec)

\* Updater.CheckUpdates as a function of the cache and the subscription
CheckUpdatesResult(srcs, spec, list) ==
    IF SourceKeyOf(spec.SourceRef) \notin DOMAIN srcs THEN <<>>
    ELSE AllVersionUpdates(list, srcs[SourceKeyOf(spec.SourceRef)].RuleSets, 1)
         \o NewPatternUpdates(srcs[SourceKeyOf(spec.SourceRef)].RuleSets, 1, list, spec)

\* Updater.ShouldAutoApply: with a nil policy the first test succeeds and the
\* range over policy.RequireApproval dereferences the nil pointer
ShouldAutoApply(update, policy) ==
    IF policy.isNil THEN [panic |-> TRUE, value |-> FALSE]
    ELSE IF policy.value.Automatic
    THEN [panic |-> FALSE,
          value |-> \A i \in 1..Len(policy.value.RequireApproval) :
                       policy.value.RequireApproval[i] # update.ChangeType]
    ELSE [panic |-> FALSE, value |-> FALSE]

\* Updater.FilterUpdatesByPolicy
FilterUpdatesByPolicy(updates, policy) ==
    [panic |-> \E i \in 1..Len(updates) : ShouldAutoApply(updates[i], policy).panic,
     autoApply |-> SelectSeq(updates, LAMBDA u : ShouldAutoApply(u, policy).value),
     requireApproval |-> SelectSeq(updates, LAMBDA u : ~ShouldAutoApply(u, policy).value)]

(***************************************************************************)
(* Reconciliation of a subscription: Subscribe, CheckUpdates,              *)
(* FilterUpdatesByPolicy, ApplyUpdates, status update; the source          *)
(* controller refreshes the cache at any time                              *)
(***************************************************************************)

VersionedInfo(name, category, version) ==
    [SubscribedPatternInfo(name, category, SourceNS, FALSE) EXCEPT !.Version = version]

RuleSetSecrets3 ==
    RuleSet(RsNameR, <<"1", ".", "0", ".", "1", "-", "r", "c">>, "stable", <<DefAwsAccess, DefAwsSecret>>)

\* the rule-set lists a fetch delivers while subscriptions are reconciled
UpdateRuleSetLists ==
    {<<RuleSetSecrets1>>, <<RuleSetSecrets2, RuleSetKorea, RuleSetSandbox>>, <<RuleSetSecrets3>>}

\* the subscription objects the API server holds: a spec and the status
\* list stored with it (empty for a new object; the version field of an
\* entry is whatever was stored)
StoredSubscriptions ==
    {[Spec |-> SubAwsGlob, List |-> <<>>],
     [Spec |-> SubKorea, List |-> <<>>],
     [Spec |-> SubRange,
      List |-> <<VersionedInfo(NameAwsAccess, CatSecrets, <<"1", ".", "0", ".", "0">>),
                 VersionedInfo(NameAwsSecret, CatSecrets, <<"1", ".", "0", ".", "1">>)>>],
     [Spec |-> SubAwsGlob,
      List |-> <<VersionedInfo(NameAwsAccess, CatSecrets, <<"2", ".", "0", ".", "5">>),
                 VersionedInfo(NameBroken, CatSecrets, <<"x">>)>>]}

Policies ==
    {NilPtr,
     Ptr(UpdatePolicy(TRUE, <<>>, <<>>)),
     Ptr(UpdatePolicy(TRUE, <<"majorVersion", "newPatterns">>, <<"all">>)),
     Ptr(UpdatePolicy(FALSE, <<"minorVersion">>, <<>>))}

\* the rule sets a Subscribe call took its registered keys from
Origins(registered, srcs, sourceKey) ==
    IF sourceKey \notin DOMAIN srcs THEN {}
    ELSE UNION {{<<srcs[sourceKey].RuleSets[j].Patterns[i].Name,
                   srcs[sourceKey].RuleSets[j].Name,
                   srcs[sourceKey].RuleSets[j].Version>> :
                     i \in {n \in 1..Len(srcs[sourceKey].RuleSets[j].Patterns) :
                              patternKey(sourceKey, srcs[sourceKey].RuleSets[j].Name,
                                         srcs[sourceKey].RuleSets[j].Patterns[n].Name)
                                  \in registered}} :
                  j \in 1..Len(srcs[sourceKey].RuleSets)}

\* r.Get: the reconciler fetches the subscription object
GetSubscription(sub) ==
    /\ updater.pc \in {"idle", "panic"}
    /\ updater' = [NewUpdater EXCEPT !.loaded = TRUE, !.Spec = sub.Spec,
                                     !.SubscribedPatternList = sub.List,
                                     !.SubscribedPatterns = Len(sub.List)]
    /\ UNCHANGED <<engineVars, supplyVars, observed, semver>>

\* the reconciler processes the subscription
ReconcileSubscribe ==
    /\ updater.loaded /\ updater.pc = "idle"
    /\ ManagerSubscribe(updater.Spec)
    /\ updater' = [updater EXCEPT
          !.pc = "subscribed", !.pendingUpdates = <<>>, !.policy = NilPtr,
          !.autoApply = <<>>, !.requireApproval = <<>>,
          !.result = subResult'.SubscribedPatterns,
          !.resultOrigin = Origins(subResult'.Registered, sources,
                                   SourceKeyOf(updater.Spec.SourceRef))]

CheckUpdates ==
    /\ updater.pc = "subscribed"
    /\ updater' = [updater EXCEPT
          !.pc = "checked",
          !.pendingUpdates = CheckUpdatesResult(sources, updater.Spec,
                                                updater.SubscribedPatternList)]
    /\ UNCHANGED <<engineVars, supplyVars, observed, semver>>

FilterUpdates(policy) ==
    /\ updater.pc = "checked"
    /\ updater' = [updater EXCEPT
          !.pc = IF FilterUpdatesByPolicy(updater.pendingUpdates, policy).panic
                 THEN "panic" ELSE "filtered",
          !.policy = policy,
          !.autoApply = IF FilterUpdatesByPolicy(updater.pendingUpdates, policy).panic
                        THEN <<>>
                        ELSE FilterUpdatesByPolicy(updater.pendingUpdates, policy).autoApply,
          !.requireApproval =
              IF FilterUpdatesByPolicy(updater.pendingUpdates, policy).panic
              THEN <<>>
              ELSE FilterUpdatesByPolicy(updater.pendingUpdates, policy).requireApproval]
    /\ UNCHANGED <<engineVars, supplyVars, observed, semver>>

\* Updater.ApplyUpdates: Subscribe again and store its result in the status
ApplyUpdates ==
    /\ updater.pc = "filtered"
    /\ updater.autoApply # <<>>
    /\ ManagerSubscribe(updater.Spec)
    /\ updater' = [updater EXCEPT
          !.pc = "applied",
          !.SubscribedPatternList = subResult'.SubscribedPatterns,
          !.SubscribedPatterns = subResult'.TotalPatterns,
          !.recorded = TRUE,
          !.origin = Origins(subResult'.Registered, sources,
                             SourceKeyOf(updater.Spec.SourceRef))]

\* the reconciler stores the result of its Subscribe call in the status
UpdateStatus ==
    /\ updater.pc \in {"subscribed", "filtered", "applied"}
    /\ updater' = [updater EXCEPT
          !.pc = "idle",
          !.SubscribedPatternList = updater.result,
          !.SubscribedPatterns = Len(updater.result),
          !.recorded = TRUE,
          !.origin = updater.resultOrigin]
    /\ UNCHANGED <<engineVars, supplyVars, observed, semver>>

NextUpdate ==
    \/ \E name \in SourceKeys, ruleSets \in UpdateRuleSetLists : SetSource(name, ruleSets)
    \/ \E sub \in StoredSubscriptions : GetSubscription(sub)
    \/ ReconcileSubscribe
    \/ CheckUpdates
    \/ \E policy \in Policies : FilterUpdates(policy)
    \/ ApplyUpdates
    \/ UpdateStatus

SpecUpdate == Init /\ [][NextUpdate]_vars

(***************************************************************************)
(* Properties of the updater                                               *)
(***************************************************************************)

\* C21: ShouldAutoApply is true exactly when the policy is automatic and the
\* change kind of the update is not in RequireApproval; with a nil policy it
\* is false and does not fail, and FilterUpdatesByPolicy then puts every
\* update in the require-approval list.
C21_AutoApplyByPolicy ==
    updater.pc \in {"filtered", "panic"} =>
        /\ updater.pc = "filtered"
        /\ \A u \in Range(updater.pendingUpdates) :
              u \in Range(updater.autoApply) <=>
                  /\ ~updater.policy.isNil
                  /\ updater.policy.value.Automatic
                  /\ u.ChangeType \notin Range(updater.policy.value.RequireApproval)
        /\ updater.policy.isNil => updater.requireApproval = updater.pendingUpdates
        /\ Range(updater.autoApply) \cup Range(updater.requireApproval)
               = Range(updater.pendingUpdates)

\* the change kind the version delta calls for: the first of major, minor,
\* patch that differs
DeltaKindHolds(kind, currentVer, availableVer) ==
    /\ kind = "unknown" => (~currentVer.ok \/ ~availableVer.ok)
    /\ (currentVer.ok /\ availableVer.ok) =>
          /\ availableVer.Major # currentVer.Major => kind = "majorVersion"
          /\ (availableVer.Major = currentVer.Major /\ availableVer.Minor # currentVer.Minor)
                 => kind = "minorVersion"
          /\ (availableVer.Major = currentVer.Major /\ availableVer.Minor = currentVer.Minor
              /\ availableVer.Patch # currentVer.Patch) => kind = "patchVersion"

\* C22: the change kind of a version update is major when the major numbers
\* of the recorded and the available version differ, minor when the majors
\* are equal and the minors differ, patch when only the patch numbers
\* differ, and unknown only when one of the two versions cannot be parsed.
C22_ChangeKindOfDelta ==
    \A u \in Range(updater.pendingUpdates) :
       u.ChangeType # "newPatterns" =>
           DeltaKindHolds(u.ChangeType, ParseVersion(u.CurrentVersion),
                          ParseVersion(u.AvailableVersion))

\* C23: Subscribe records for every subscribed pattern the version of the
\* rule set it came from; once the cache holds that rule set at another
\* version, CheckUpdates on the status recorded by Subscribe emits a
\* PendingUpdate for that pattern, from the recorded to the cached version.
C23_VersionRecorded ==
    /\ [](updater.recorded =>
            \A i \in 1..Len(updater.SubscribedPatternList) :
               \E o \in updater.origin :
                  /\ o[1] = updater.SubscribedPatternList[i].Name
                  /\ o[3] = updater.SubscribedPatternList[i].Version)
    /\ [][(CheckUpdates /\ updater.recorded
           /\ SourceKeyOf(updater.Spec.SourceRef) \in DOMAIN sources) =>
              \A o \in updater.origin :
                 \A rs \in Range(sources[SourceKeyOf(updater.Spec.SourceRef)].RuleSets) :
                    (/\ rs.Name = o[2]
                     /\ rs.Version # o[3]
                     /\ \E p \in Range(rs.Patterns) : p.Name = o[1]) =>
                        \E u \in Range(updater'.pendingUpdates) :
                           /\ u.Pattern = o[1]
                           /\ u.CurrentVersion = o[3]
                           /\ u.AvailableVersion = rs.Version]_vars

\* the match test of the manager: some category subscription selects the
\* rule set (maturity, version constraint) and the pattern (category, names)
ManagerAccepts(rs, p, spec) ==
    \E k \in 1..Len(spec.Subscribe) :
       /\ RuleSetSelected(rs, spec.Subscribe[k], MaturitySet(spec.MaturityLevels))
       /\ PatternSelected(p, spec.Subscribe[k])

\* the cached patterns that are not in the status list and that the manager
\* would match, with the version of their rule set
UnsubscribedMatches(ruleSets, list, spec) ==
    UNION {{<<p.Name, rs.Version>> :
               p \in {q \in Range(rs.Patterns) :
                         /\ \A n \in 1..Len(list) : list[n].Name # q.Name
                         /\ ManagerAccepts(rs, q, spec)}} :
           rs \in Range(ruleSets)}

\* C24: CheckUpdates emits a newPatterns update for exactly the cached
\* patterns that are not yet subscribed and that Subscribe would match for
\* the same subscription: the planner's match test and the manager's accept
\* the same patterns.
C24_PlannerMatchesAsManager ==
    [][(CheckUpdates /\ SourceKeyOf(updater.Spec.SourceRef) \in DOMAIN sources) =>
          {<<u.Pattern, u.AvailableVersion>> :
              u \in {v \in Range(updater'.pendingUpdates) : v.ChangeType = "newPatterns"}}
          = UnsubscribedMatches(sources[SourceKeyOf(updater.Spec.SourceRef)].RuleSets,
                                updater.SubscribedPatternList, updater.Spec)]_vars

\* ApplyUpdates runs Subscribe again in the reconciliation whose first
\* Subscribe call left its result in subResult
Reapplied == updater.pc = "filtered" /\ updater'.pc = "applied"

\* C30: when Subscribe is run again after a cache update, as ApplyUpdates
\* does, the engine keys of the subscription are exactly the patterns the
\* current run matched: every key the current run registered is in the
\* engine, and no key that the earlier run registered and the current run
\* did not is left in it.
C30_RerunReplacesKeys ==
    [][Reapplied =>
          /\ subResult'.Registered \subseteq DOMAIN patterns'
          /\ (subResult.Registered \ subResult'.Registered) \cap DOMAIN patterns' = {}]_vars

(***************************************************************************)
(* Constraint.Matches on range constraints                                 *)
(***************************************************************************)

MaxVersionPart == 2

PreReleases == {<<>>, <<"r", "c">>}

VersionInputs ==
    {Version(major, minor, patch, pre) :
        major \in 0..MaxVersionPart, minor \in 0..MaxVersionPart,
        patch \in 0..MaxVersionPart, pre \in PreReleases}

RangeOps == {"~", "^"}

InitSemver ==
    /\ InitEngine /\ InitSupply /\ observed = NotObserved(FALSE) /\ updater = NewUpdater
    /\ semver \in {[pc |-> "input", c |-> Constraint(op, cv), v |-> v] :
                      op \in RangeOps, cv \in VersionInputs, v \in VersionInputs}

\* c.Matches(v)
MatchVersion ==
    /\ semver.pc = "input"
    /\ semver' = [pc |-> "done", c |-> semver.c, v |-> semver.v,
                  matches |-> ConstraintMatches(semver.c, semver.v)]
    /\ UNCHANGED <<engineVars, supplyVars, observed, updater>>

NextSemver == MatchVersion

SpecSemver == InitSemver /\ [][NextSemver]_vars

\* the version ordering: by major, minor, patch; of two versions with the
\* same triple a pre-release is below the release, two pre-releases are in
\* the order of their strings
VersionBelow(a, b) ==
    \/ a.Major < b.Major
    \/ a.Major = b.Major /\ a.Minor < b.Minor
    \/ a.Major = b.Major /\ a.Minor = b.Minor /\ a.Patch < b.Patch
    \/ /\ a.Major = b.Major /\ a.Minor = b.Minor /\ a.Patch = b.Patch
       /\ a.Pre # <<>>
       /\ (b.Pre = <<>> \/ StrLess(a.Pre, b.Pre))

\* the exclusive upper end of the range of ~X.Y.Z and ^X.Y.Z
RangeEnd(c) ==
    IF c.Op = "~" \/ c.Version.Major = 0
    THEN Version(c.Version.Major, c.Version.Minor + 1, 0, <<>>)
    ELSE Version(c.Version.Major + 1, 0, 0, <<>>)

\* C25: v satisfies ~X.Y.Z exactly when X.Y.Z <= v < X.(Y+1).0, and ^X.Y.Z
\* exactly when X.Y.Z <= v < (X+1).0.0 for X > 0 (as ~X.Y.Z for X = 0), in
\* the version ordering where a pre-release is below its release.
C25_RangeConstraint ==
    semver.pc = "done" =>
        (semver.matches <=>
            /\ (semver.c.Version = semver.v \/ VersionBelow(semver.c.Version, semver.v))
            /\ VersionBelow(semver.v, RangeEnd(semver.c)))

(***************************************************************************)
(* Detection and redaction with the built-in patterns for payment cards    *)
(* and resident numbers                                                    *)
(***************************************************************************)

TextVisa ==
    <<"4", "1", "1", "1", "1", "1", "1", "1", "1", "1", "1", "1", "1", "1", "1", "1">>
TextVisaDashes ==
    <<"4", "1", "1", "1", "-", "1", "1", "1", "1", "-", "1", "1", "1", "1", "-", "1", "1", "1", "1">>
TextNotCard ==
    <<"1", "2", "3", "4", "5", "6", "7", "8", "9", "0", "1", "2", "3", "4", "5", "6">>
TextRRN == <<"9", "2", "0", "1", "0", "1", "-", "1", "2", "3", "4", "5", "6", "2">>
TextRRNBadCheck == <<"9", "2", "0", "1", "0", "1", "-", "1", "2", "3", "4", "5", "6", "7">>
TextRRNPlain == <<"9", "2", "0", "1", "0", "1", "1", "2", "3", "4", "5", "6", "2">>

IdentityTexts ==
    {TextVisa, TextVisaDashes, TextNotCard, TextRRN, TextRRNBadCheck, TextRRNPlain}

IdentityNameLists == {<<KeyCreditCard>>, <<KeyRRN>>, <<KeyRRN, KeyCreditCard>>}

InitIdentity ==
    /\ patterns = LoadPatterns(IdentityPatterns)
    /\ validationEnabled = TRUE
    /\ mu = [readers |-> 0, writer |-> FALSE]
    /\ call = IdleCall
    /\ toggle = IdleToggle
    /\ addErr = "none"
    /\ InitSupply /\ observed = NotObserved(FALSE) /\ updater = NewUpdater
    /\ semver = NoMatching

NextIdentity ==
    \/ EnableValidation
    \/ DisableValidation
    \/ \E text \in IdentityTexts, redact \in BOOLEAN : DetectBegin(text, redact)
    \/ \E k \in DOMAIN IdentityPatterns : DetectScan(k)
    \/ \E text \in IdentityTexts, names \in IdentityNameLists, redact \in BOOLEAN :
          DetectWithPatternsBegin(text, names, redact)
    \/ DetectWithPatternsScan
    \/ DetectReturn
    \/ RedactEmpty
    \/ RedactSort
    \/ RedactMask
    \/ RedactReturn

SpecIdentity == InitIdentity /\ [][NextIdentity]_vars

\* C26: a byte range of the text is reported at most once per pattern, also
\* when several rules of the pattern match it: DetectWithPatterns with
\* credit-card on a text that holds exactly one valid card number returns
\* exactly one detection.
C26_RangeReportedOnce ==
    ResultReady =>
        /\ \A i, j \in 1..Len(call.results) :
              (/\ call.results[i].PatternName = call.results[j].PatternName
               /\ call.results[i].Position = call.results[j].Position) => i = j
        /\ (/\ call.op = "DetectWithPatterns"
            /\ DOMAIN call.seen = {KeyCreditCard}
            /\ call.text \in {TextVisa, TextVisaDashes}) => Len(call.results) = 1

\* C27: a detected resident number 920101-NNNNNNN is redacted by the
\* built-in korean-rrn strategy to 920101-*******: the six leading digits
\* and the hyphen are kept, the seven trailing digits are masked.
C27_ResidentNumberMasked ==
    RedactReady =>
        \A i \in 1..Len(call.results) :
           (/\ call.results[i].PatternName = KeyRRN
            /\ Len(call.results[i].MatchedText) = 14
            /\ call.results[i].MatchedText[7] = "-") =>
               call.results[i].RedactedText =
                   SubSeq(call.results[i].MatchedText, 1, 7) \o Repeat(<<"*">>, 7)

====
